---- MODULE Spec2Model ----
(***************************************************************************)
(* Model of the diff-aware context extractor of pr-intent-checker.         *)
(*                                                                         *)
(*   src/src/ast_analyzer.py : parse_diff, CodeAnalyzer,                   *)
(*       _find_relevant_nodes, _extract_node_context,                      *)
(*       generate_context_code                                             *)
(*   src/src/github_api.py   : parse_diff_hunks, AstParser,                *)
(*       get_contextual_code                                               *)
(*                                                                         *)
(* Python strings are sequences of one-character strings, so that the      *)
(* prefix, suffix, substring and regular-expression tests of the code are  *)
(* computed on the characters and not assumed.  Python dicts are           *)
(* association lists in insertion order.                                   *)
(***************************************************************************)
EXTENDS Integers, Sequences, FiniteSets, TLC

VARIABLES
    diff,        \* the lines of the diff text read so far (diff.splitlines())
    phase,       \* "scan" while the parsers loop over the lines, "returned" after
    pd,          \* locals of ast_analyzer.parse_diff
    ph,          \* locals of github_api.parse_diff_hunks
    pd_ret,      \* value returned by parse_diff
    ph_ret,      \* value returned by parse_diff_hunks (left empty when it raised)
    \* -- the process
    hash_seed,   \* the seed of str hashes, fixed when the process starts
    \* -- a run of both extractors over the files of a change set
    pc,          \* "idle", "gen" (in generate_context_code), "ctx" (in
                 \* get_contextual_code), "done"
    run_no,      \* "none", "first", "second": the run in progress
    repo,        \* what the repository holds at each path
    files,       \* the files and changed lines the diff parser returned
    pos,         \* number of files the running loop has handled
    overall_context_parts,   \* of generate_context_code
    gen_raised,  \* an exception left generate_context_code
    gen_out,     \* value returned by generate_context_code
    parsed_file_cache,       \* of get_contextual_code
    context_parts,           \* of get_contextual_code
    ctx_raised,  \* an exception left get_contextual_code
    ctx_out,     \* value returned by get_contextual_code
    prev_gen_out,            \* gen_out of the run before
    prev_ctx_out,            \* ctx_out of the run before
    prev_hash_seed,          \* hash_seed of the run before
    fetch_log,   \* the calls get_parsed_file has made of repo.get_contents and of
                 \* ast.parse in the run, in order, each with its path
    \* -- one source file going through both extractors
    stage,       \* "start", "analyzed", "localized", "assembled"
    tree,        \* the module body ast.parse gave for the file
    lines,       \* the changed lines the diff parser reported for the file
    code_analyzer,    \* the CodeAnalyzer after analyzer.visit(tree)
    ast_parser,       \* the AstParser after parser.visit(tree)
    relevant,   \* value of _find_relevant_nodes(analyzer, lines)
    changed,   \* changed_blocks_in_file of get_contextual_code
    gen_file_parts,   \* what generate_context_code appends for the file
    ctx_file_parts,   \* what get_contextual_code appends for the file
    \* -- calls of llm_eval.evaluate_intent
    azure_openai,     \* the globals AZURE_OPENAI_ENDPOINT, _KEY, _DEPLOYMENT
    eval_args,        \* the arguments of the last call (None before the first)
    eval_api,         \* what the client did in the last call, when it was reached
    eval_ret,         \* what the last call returned and from where
    \* -- a run of main
    main_world,       \* what the collaborators of main find
    main_ret          \* how the run ended: exit code and what it did, in order

diffVars == <<diff, phase, pd, ph, pd_ret, ph_ret>>
fileVars == <<stage, tree, lines, code_analyzer, ast_parser, relevant, changed,
              gen_file_parts, ctx_file_parts>>
runVars == <<pc, run_no, repo, files, pos, overall_context_parts, gen_raised, gen_out,
             parsed_file_cache, context_parts, ctx_raised, ctx_out,
             prev_gen_out, prev_ctx_out, prev_hash_seed, fetch_log>>
evalVars == <<azure_openai, eval_args, eval_api, eval_ret>>
mainVars == <<main_world, main_ret>>
vars == <<diffVars, fileVars, runVars, evalVars, mainVars, hash_seed>>

-----------------------------------------------------------------------------
(* Bounds *)

\* Number of lines of a diff text.
MaxLines == 4

-----------------------------------------------------------------------------
(* Python str operations on sequences of characters *)

StartsWith(s, p) == Len(s) >= Len(p) /\ SubSeq(s, 1, Len(p)) = p

EndsWith(s, p) == Len(s) >= Len(p) /\ SubSeq(s, Len(s) - Len(p) + 1, Len(s)) = p

\* p in s
Contains(s, p) == \E i \in 1..(Len(s) - Len(p) + 1) : SubSeq(s, i, i + Len(p) - 1) = p

\* s[n:]
DropFirst(s, n) == SubSeq(s, n + 1, Len(s))

IsSpace(c) == c = " "

RECURSIVE LStrip(_)
LStrip(s) == IF s # <<>> /\ IsSpace(Head(s)) THEN LStrip(Tail(s)) ELSE s

RECURSIVE RStrip(_)
RStrip(s) == IF s # <<>> /\ IsSpace(s[Len(s)]) THEN RStrip(SubSeq(s, 1, Len(s) - 1)) ELSE s

\* s.strip()
Strip(s) == RStrip(LStrip(s))

Digits == {"0", "1", "2", "3", "4", "5", "6", "7", "8", "9"}

DigitVal(c) ==
    CASE c = "0" -> 0 [] c = "1" -> 1 [] c = "2" -> 2 [] c = "3" -> 3 [] c = "4" -> 4
      [] c = "5" -> 5 [] c = "6" -> 6 [] c = "7" -> 7 [] c = "8" -> 8 [] c = "9" -> 9

\* int(s) for a non-empty string of digits
RECURSIVE StrToInt(_)
StrToInt(s) == IF s = <<>> THEN 0 ELSE 10 * StrToInt(SubSeq(s, 1, Len(s) - 1)) + DigitVal(s[Len(s)])

\* First index >= i of s that holds no digit (Len(s) + 1 when there is none):
\* where a greedy \d* that starts at i stops.
RECURSIVE DigitsEnd(_, _)
DigitsEnd(s, i) == IF i <= Len(s) /\ s[i] \in Digits THEN DigitsEnd(s, i + 1) ELSE i

\* s has the literal p at index i
HasAt(s, i, p) == i + Len(p) - 1 <= Len(s) /\ SubSeq(s, i, i + Len(p) - 1) = p

-----------------------------------------------------------------------------
(* Optional values and dicts *)

None == [some |-> FALSE, v |-> <<>>]
Some(x) == [some |-> TRUE, v |-> x]

\* A dict is the sequence of its items [k, v] in insertion order.
EmptyDict == <<>>
DictKeys(d) == {d[i].k : i \in 1..Len(d)}
DictHas(d, key) == \E i \in 1..Len(d) : d[i].k = key
DictGet(d, key) == d[CHOOSE i \in 1..Len(d) : d[i].k = key].v
\* d[key] = val
DictPut(d, key, val) ==
    IF DictHas(d, key)
    THEN [i \in 1..Len(d) |-> IF d[i].k = key THEN [k |-> key, v |-> val] ELSE d[i]]
    ELSE Append(d, [k |-> key, v |-> val])

-----------------------------------------------------------------------------
(* Hunk headers *)

NoMatch == [ok |-> FALSE, start |-> 0]

\* re.match of  ^@@ -\d+(?:,\d+)? \+(\d+)<count> @@  on a line; start is
\* int(group(1)).  In parse_diff <count> is (?:,\d+)? ; in parse_diff_hunks it
\* is (?:,(\d+)?)? , which also takes a comma followed by no digit.
HunkHeaderMatch(line, commaAlone) ==
    IF ~StartsWith(line, <<"@", "@", " ", "-">>) THEN NoMatch
    ELSE
    LET a1 == DigitsEnd(line, 5)
        b1 == IF HasAt(line, a1, <<",">>) /\ DigitsEnd(line, a1 + 1) > a1 + 1
              THEN DigitsEnd(line, a1 + 1) ELSE a1
        a2 == DigitsEnd(line, b1 + 2)
        c2 == DigitsEnd(line, a2 + 1)
        b2 == IF HasAt(line, a2, <<",">>) /\ (c2 > a2 + 1 \/ commaAlone) THEN c2 ELSE a2
    IN  IF /\ a1 > 5
           /\ HasAt(line, b1, <<" ", "+">>)
           /\ a2 > b1 + 2
           /\ HasAt(line, b2, <<" ", "@", "@">>)
        THEN [ok |-> TRUE, start |-> StrToInt(SubSeq(line, b1 + 2, a2 - 1))]
        ELSE NoMatch

\* hunk_header_regex.match(line) of parse_diff
hunk_header_regex(line) == HunkHeaderMatch(line, FALSE)

\* hunk_header_re.match(line) of parse_diff_hunks
hunk_header_re(line) == HunkHeaderMatch(line, TRUE)

NewFilePrefix == <<"+", "+", "+", " ", "b", "/">>
PyExt == <<".", "p", "y">>

\* file_path_regex.match(line): ^\+\+\+ b/(.*) ; group(1) is the rest of the line
file_path_regex(line) ==
    IF StartsWith(line, NewFilePrefix) THEN Some(DropFirst(line, 6)) ELSE None

-----------------------------------------------------------------------------
(* The lines a diff text is made of *)

\* +++ b/a.py   (new-file header of a.py)
LineNewA == <<"+", "+", "+", " ", "b", "/", "a", ".", "p", "y">>

\* +++ b/b.py   (new-file header of b.py)
LineNewB == <<"+", "+", "+", " ", "b", "/", "b", ".", "p", "y">>

\* +++ b/r.md   (new-file header of a file that is no Python file)
LineNewMd == <<"+", "+", "+", " ", "b", "/", "r", ".", "m", "d">>

\* +++ /dev/null   (new-file header of a deleted file)
LineDevNull == <<"+", "+", "+", " ", "/", "d", "e", "v", "/", "n", "u", "l", "l">>

\* --- a/a.py   (old-file header)
LineOldA == <<"-", "-", "-", " ", "a", "/", "a", ".", "p", "y">>

\* @@ -1,2 +1,3 @@   (hunk header, new start 1)
LineHunk1 == <<"@", "@", " ", "-", "1", ",", "2", " ", "+", "1", ",", "3", " ", "@", "@">>

\* @@ -4 +5 @@   (hunk header with the counts left out, new start 5)
LineHunk5 == <<"@", "@", " ", "-", "4", " ", "+", "5", " ", "@", "@">>

\* @@ bad   (a line that starts with @@ and is no hunk header)
LineHunkBad == <<"@", "@", " ", "b", "a", "d">>

\* +x   (added line)
LineAdd == <<"+", "x">>

\* -x   (removed line)
LineDel == <<"-", "x">>

\*  x   (context line)
LineCtx == <<" ", "x">>

\* \ No newline at end of file   (marker: the line above has no newline)
LineNoNl == <<"\\", " ", "N", "o", " ", "n", "e", "w", "l", "i", "n", "e", " ", "a", "t", " ", "e", "n", "d", " ", "o", "f", " ", "f", "i", "l", "e">>

\* diff --git a/a.py b/a.py   (git's per-file line)
LineGit == <<"d", "i", "f", "f", " ", "-", "-", "g", "i", "t", " ", "a", "/", "a", ".", "p", "y", " ", "b", "/", "a", ".", "p", "y">>

DiffLines ==
    {LineNewA, LineNewB, LineNewMd, LineDevNull, LineOldA,
     LineHunk1, LineHunk5, LineHunkBad, LineAdd, LineDel,
     LineCtx, LineNoNl, LineGit}

-----------------------------------------------------------------------------
(* ast_analyzer.parse_diff *)

\* The locals before the loop.
PdInit == [current_file |-> None, new_file_line_num |-> 0, changed_lines |-> EmptyDict]

\* One iteration of the loop `for line in diff.splitlines()`.
PdStep(st, line) ==
    LET file_match == file_path_regex(line)
        hunk_match == hunk_header_regex(line)
        cur == st.current_file.v
    IN  IF file_match.some
        THEN IF ~EndsWith(file_match.v, PyExt)
             THEN [st EXCEPT !.current_file = None]
             ELSE [st EXCEPT !.current_file = Some(file_match.v),
                             !.changed_lines = IF DictHas(@, file_match.v) THEN @
                                               ELSE DictPut(@, file_match.v, {})]
        ELSE IF ~st.current_file.some THEN st
        ELSE IF hunk_match.ok
        THEN [st EXCEPT !.new_file_line_num = hunk_match.start]
        ELSE IF StartsWith(line, <<"+">>)
        THEN [st EXCEPT !.changed_lines = DictPut(@, cur, DictGet(@, cur) \cup {st.new_file_line_num}),
                        !.new_file_line_num = @ + 1]
        ELSE IF ~StartsWith(line, <<"-">>) /\ ~StartsWith(line, <<"\\">>)
        THEN [st EXCEPT !.new_file_line_num = @ + 1]
        ELSE st

\* The value parse_diff returns for the text whose lines are `text`.
PdReturn(text, st) == IF text = <<>> THEN EmptyDict ELSE st.changed_lines

-----------------------------------------------------------------------------
(* github_api.parse_diff_hunks *)

\* The locals before the loop.  current_line_in_hunk and line_index_in_hunk
\* are first assigned by a matching hunk header: until then they are unbound
\* (hunk_bound = FALSE) and reading them raises UnboundLocalError.  count and
\* target_lines are assigned and never read; they are left out.
PhInit == [current_filename |-> None, hunk_bound |-> FALSE, current_line_in_hunk |-> 0,
           changed_lines |-> EmptyDict, raised |-> FALSE]

\* `and current_filename`: None and the empty string are false.
Truthy(opt) == opt.some /\ opt.v # <<>>

\* One iteration of the loop `for line in diff_text.splitlines()`; nothing runs
\* after an exception.
PhStep(st, line) ==
    LET match == hunk_header_re(line)
        cur == st.current_filename.v
        name == Strip(DropFirst(line, 6))
    IN  IF st.raised THEN st
        ELSE IF StartsWith(line, NewFilePrefix)
        THEN [st EXCEPT !.current_filename = Some(name),
                        !.changed_lines = IF DictHas(@, name) THEN @ ELSE DictPut(@, name, {})]
        ELSE IF StartsWith(line, <<"@", "@">>) /\ Truthy(st.current_filename)
        THEN IF match.ok
             THEN [st EXCEPT !.hunk_bound = TRUE, !.current_line_in_hunk = match.start]
             ELSE st
        ELSE IF /\ StartsWith(line, <<"+">>) /\ ~StartsWith(line, <<"+", "+", "+">>)
                /\ Truthy(st.current_filename)
        THEN IF ~st.hunk_bound THEN [st EXCEPT !.raised = TRUE]
             ELSE [st EXCEPT !.changed_lines =
                                 DictPut(@, cur, DictGet(@, cur) \cup {st.current_line_in_hunk}),
                             !.current_line_in_hunk = @ + 1]
        ELSE IF StartsWith(line, <<"-">>) /\ ~StartsWith(line, <<"-", "-", "-">>)
        THEN IF ~st.hunk_bound THEN [st EXCEPT !.raised = TRUE] ELSE st
        ELSE IF ~StartsWith(line, <<"@", "@">>) /\ Truthy(st.current_filename)
        THEN IF ~st.hunk_bound THEN [st EXCEPT !.raised = TRUE]
             ELSE [st EXCEPT !.current_line_in_hunk = @ + 1]
        ELSE st

\* {f: lines for f, lines in changed_lines.items() if lines}
RECURSIVE NonEmptyItems(_)
NonEmptyItems(d) ==
    IF d = <<>> THEN <<>>
    ELSE IF Head(d).v # {} THEN <<Head(d)>> \o NonEmptyItems(Tail(d))
    ELSE NonEmptyItems(Tail(d))

\* The value parse_diff_hunks returns (when no exception was raised).
PhReturn(st) == NonEmptyItems(st.changed_lines)

-----------------------------------------------------------------------------
(* The two diff parsers reading the same text, line by line *)

DiffStart ==
    /\ diff = <<>>
    /\ phase = "scan"
    /\ pd = PdInit
    /\ ph = PhInit
    /\ pd_ret = EmptyDict
    /\ ph_ret = EmptyDict

\* Both loops take the next line of the text.
ReadLine(line) ==
    /\ phase = "scan"
    /\ Len(diff) < MaxLines
    /\ diff' = Append(diff, line)
    /\ pd' = PdStep(pd, line)
    /\ ph' = PhStep(ph, line)
    /\ UNCHANGED <<phase, pd_ret, ph_ret>>
    /\ UNCHANGED <<fileVars, runVars, evalVars, mainVars, hash_seed>>

\* The text ends: both functions return.
EndOfText ==
    /\ phase = "scan"
    /\ phase' = "returned"
    /\ pd_ret' = PdReturn(diff, pd)
    /\ ph_ret' = IF ph.raised THEN EmptyDict ELSE PhReturn(ph)
    /\ UNCHANGED <<diff, pd, ph>>
    /\ UNCHANGED <<fileVars, runVars, evalVars, mainVars, hash_seed>>

NextDiff == (\E line \in DiffLines : ReadLine(line)) \/ EndOfText

-----------------------------------------------------------------------------
(* Reading the diff text as a unified diff: what the claims speak of *)

\* A `+++ b/<path>` header, and its path.
IsNewFileHeader(line) == StartsWith(line, NewFilePrefix)
HeaderPath(line) == Strip(DropFirst(line, 6))

\* An added line: marked '+' and no `+++` header line.
IsAddedLine(line) == StartsWith(line, <<"+">>) /\ ~StartsWith(line, <<"+", "+", "+">>)

\* A removed line: marked '-' and no `---` header line.
IsRemovedLine(line) == StartsWith(line, <<"-">>) /\ ~StartsWith(line, <<"-", "-", "-">>)

\* A context line: marked by a blank.
IsContextLine(line) == StartsWith(line, <<" ">>)

\* `\ No newline at end of file`: a line of the hunk that is in neither revision.
IsNoNewlineMarker(line) == StartsWith(line, <<"\\">>)

IsHunkBodyLine(line) ==
    IsAddedLine(line) \/ IsRemovedLine(line) \/ IsContextLine(line) \/ IsNoNewlineMarker(line)

\* The lines i of the text read so far that lie in a section of `path`: after a
\* `+++ b/<path>` header and before the next `+++ b/` header.
SectionLines(path) ==
    {i \in 1..Len(diff) :
        \E f \in 1..(i - 1) :
            /\ IsNewFileHeader(diff[f]) /\ HeaderPath(diff[f]) = path
            /\ \A j \in (f + 1)..i : ~IsNewFileHeader(diff[j])}

HeaderPaths == {HeaderPath(diff[f]) : f \in {i \in 1..Len(diff) : IsNewFileHeader(diff[i])}}

\* The text read so far ends inside a hunk of a Python file: a `+++ b/<path>.py`
\* header at f, no other `+++` line after it, a hunk header at h > f, and only
\* added, removed, context and no-newline lines after h.
InHunk(f, h) ==
    /\ 1 <= f /\ f < h /\ h <= Len(diff)
    /\ IsNewFileHeader(diff[f]) /\ EndsWith(diff[f], PyExt)
    /\ \A j \in (f + 1)..Len(diff) : ~StartsWith(diff[j], <<"+", "+", "+">>)
    /\ hunk_header_regex(diff[h]).ok /\ hunk_header_re(diff[h]).ok
    /\ \A j \in (h + 1)..Len(diff) : IsHunkBodyLine(diff[j])

\* The number the new revision gives the line after the last one read: the
\* hunk's new start c plus the added and context lines of the hunk so far.
NextNewLine(h) ==
    hunk_header_regex(diff[h]).start
        + Cardinality({j \in (h + 1)..Len(diff) : IsAddedLine(diff[j]) \/ IsContextLine(diff[j])})

-----------------------------------------------------------------------------
(* Claims on the diff parsers *)

\* C1: a file whose diff sections hold removed lines and no added line is not a
\* key of the mapping returned by parse_diff, nor of the one returned by
\* parse_diff_hunks.
C1_OnlyRemovedFileAbsent ==
    phase = "returned" =>
        \A path \in HeaderPaths :
            (/\ \E i \in SectionLines(path) : IsRemovedLine(diff[i])
             /\ \A i \in SectionLines(path) : ~IsAddedLine(diff[i]))
                => /\ path \notin DictKeys(pd_ret)
                   /\ path \notin DictKeys(ph_ret)

\* C2: inside a hunk `@@ -a,b +c,d @@` both parsers' line counters stand at c
\* plus the number of added and context lines read in the hunk (removed lines
\* and no-newline markers do not advance them), and an added line is recorded
\* under the number the counter had when it was read.
C2_HunkLineNumbers ==
    \A f, h \in 1..Len(diff) :
        (InHunk(f, h) /\ ~ph.raised) =>
            LET path == HeaderPath(diff[f])
                last == diff[Len(diff)]
            IN  /\ pd.new_file_line_num = NextNewLine(h)
                /\ ph.current_line_in_hunk = NextNewLine(h)
                /\ (h < Len(diff) /\ IsAddedLine(last)) =>
                      /\ (NextNewLine(h) - 1) \in DictGet(pd.changed_lines, path)
                      /\ (NextNewLine(h) - 1) \in DictGet(ph.changed_lines, path)

\* The part of C2 that is about parse_diff alone.
C2_HunkLineNumbers_parse_diff ==
    \A f, h \in 1..Len(diff) :
        InHunk(f, h) =>
            /\ pd.new_file_line_num = NextNewLine(h)
            /\ (h < Len(diff) /\ IsAddedLine(diff[Len(diff)])) =>
                  (NextNewLine(h) - 1) \in DictGet(pd.changed_lines, HeaderPath(diff[f]))

\* C8: diff parsing never fails: whatever the text, neither parser raises.
C8_DiffParsingNeverRaises == ~ph.raised

-----------------------------------------------------------------------------
(* More of Python's str and list operations *)

\* Index of the first / last "." of s (0 when there is none).
FirstDot(s) == IF \E i \in 1..Len(s) : s[i] = "."
               THEN CHOOSE i \in 1..Len(s) : s[i] = "." /\ \A j \in 1..(i - 1) : s[j] # "."
               ELSE 0
LastDot(s) == IF \E i \in 1..Len(s) : s[i] = "."
              THEN CHOOSE i \in 1..Len(s) : s[i] = "." /\ \A j \in (i + 1)..Len(s) : s[j] # "."
              ELSE 0

\* s.split('.')[0] and s.split('.')[-1]
SplitFirst(s) == IF FirstDot(s) = 0 THEN s ELSE SubSeq(s, 1, FirstDot(s) - 1)
SplitLast(s) == IF LastDot(s) = 0 THEN s ELSE SubSeq(s, LastDot(s) + 1, Len(s))

\* sep.join(strs)
RECURSIVE Join(_, _)
Join(strs, sep) ==
    IF strs = <<>> THEN <<>>
    ELSE IF Len(strs) = 1 THEN strs[1]
    ELSE strs[1] \o sep \o Join(Tail(strs), sep)

\* The characters of the model in the order of their code points.
Alphabet == <<" ", ",", ".", "C", "D", "N", "a", "b", "e", "f", "g", "h", "i", "k", "l",
              "m", "o", "p", "q", "r", "s", "t">>
Ord(c) == CHOOSE i \in 1..Len(Alphabet) : Alphabet[i] = c

\* a < b for Python strings
RECURSIVE StrLess(_, _)
StrLess(a, b) ==
    IF b = <<>> THEN FALSE
    ELSE IF a = <<>> THEN TRUE
    ELSE IF Head(a) = Head(b) THEN StrLess(Tail(a), Tail(b))
    ELSE Ord(Head(a)) < Ord(Head(b))

\* sorted(S) for a set of strings
\* The elements of a set of strings from the least to the greatest.
RECURSIVE Ascending(_)
Ascending(S) ==
    IF S = {} THEN <<>>
    ELSE LET least == CHOOSE x \in S : \A y \in S \ {x} : StrLess(x, y)
         IN  <<least>> \o Ascending(S \ {least})

Reverse(seq) == [i \in 1..Len(seq) |-> seq[Len(seq) + 1 - i]]

\* The hash seeds a process can start with.  The iteration order of a set of
\* str depends on the seed: one seed gives one order, the other the reverse.
HashSeeds == {"up", "down"}

\* list(s) for a set s of str
ListOfSet(S) == IF hash_seed = "up" THEN Ascending(S) ELSE Reverse(Ascending(S))

\* The list left as it is.
unsorted(seq) == seq

\* sorted(seq) for a list of str (insertion into the sorted rest)
RECURSIVE InsertSorted(_, _)
InsertSorted(x, seq) ==
    IF seq = <<>> THEN <<x>>
    ELSE IF StrLess(Head(seq), x) THEN <<Head(seq)>> \o InsertSorted(x, Tail(seq))
    ELSE <<x>> \o seq

RECURSIVE sorted(_)
sorted(seq) == IF seq = <<>> THEN <<>> ELSE InsertSorted(Head(seq), sorted(Tail(seq)))

Range(seq) == {seq[i] : i \in 1..Len(seq)}

-----------------------------------------------------------------------------
(* Syntax trees: what ast.parse gives the analyzers *)

\* Number of top-level statements of a source file.
MaxTop == 2

\* A node of the tree.  kind is the node class ("Assign" stands for any simple
\* statement); calls holds, for a FunctionDef, the names of the calls found by
\* ast.walk in it, each as ast.unparse renders the call's target (a name or a
\* dotted chain); body holds the statements of a ClassDef; module and names
\* are those of an import statement.
Node(kind, name, calls, body, module, names) ==
    [kind |-> kind, name |-> name, lineno |-> 0, end_lineno |-> 0,
     calls |-> calls, body |-> body, module |-> module, names |-> names]

Alias(name, asname) == [name |-> name, asname |-> asname]
ImportNode(names) == Node("Import", <<>>, <<>>, <<>>, <<>>, names)
ImportFromNode(module, names) == Node("ImportFrom", <<>>, <<>>, <<>>, module, names)
FunctionNode(name, calls) == Node("FunctionDef", name, calls, <<>>, <<>>, <<>>)
ClassNode(name, body) == Node("ClassDef", name, <<>>, body, <<>>, <<>>)
AssignNode == Node("Assign", <<>>, <<>>, <<>>, <<>>, <<>>)

\* Lines a statement takes: one for an import or an assignment, two for a
\* function (the def line and one body line), one for the class line plus the
\* lines of the class body.
RECURSIVE LinesOf(_), LinesOfAll(_)
LinesOf(node) ==
    CASE node.kind = "FunctionDef" -> 2
      [] node.kind = "ClassDef" -> 1 + LinesOfAll(node.body)
      [] OTHER -> 1
LinesOfAll(nodes) == IF nodes = <<>> THEN 0 ELSE LinesOf(Head(nodes)) + LinesOfAll(Tail(nodes))

\* lineno and end_lineno as the parser sets them for statements that follow
\* each other from line `line` on.
RECURSIVE Place(_, _)
Place(nodes, line) ==
    IF nodes = <<>> THEN <<>>
    ELSE LET n == Head(nodes)
         IN  <<[n EXCEPT !.lineno = line,
                         !.end_lineno = line + LinesOf(n) - 1,
                         !.body = Place(n.body, line + 1)]>>
             \o Place(Tail(nodes), line + LinesOf(n))

\* Identifiers and call targets of the source files.
Id_os == <<"o", "s">>
Id_oss == <<"o", "s", "s">>
Id_q == <<"q">>
Id_p == <<"p">>
Id_h == <<"h">>
Id_k == <<"k">>
Id_f == <<"f">>
Id_g == <<"g">>
Id_r == <<"r">>
Id_m == <<"m">>
Id_C == <<"C">>
Id_D == <<"D">>
Id_N == <<"N">>
Call_a_r == <<"a", ".", "r">>
Call_b_r == <<"b", ".", "r">>
Call_self_r == <<"s", "e", "l", "f", ".", "r">>
Call_os_p == <<"o", "s", ".", "p">>

\* The statements a source file is made of.
\*   import os
StmtImportOs == ImportNode(<<Alias(Id_os, <<>>)>>)
\*   import oss
StmtImportOss == ImportNode(<<Alias(Id_oss, <<>>)>>)
\*   from q import p as h
StmtFromImport == ImportFromNode(Id_q, <<Alias(Id_p, Id_h)>>)
\*   from q import p, k
StmtFromImportTwo == ImportFromNode(Id_q, <<Alias(Id_p, <<>>), Alias(Id_k, <<>>)>>)
\*   from q import f
StmtFromImportF == ImportFromNode(Id_q, <<Alias(Id_f, <<>>)>>)
\*   def f(): pass
StmtDefF == FunctionNode(Id_f, <<>>)
\*   def f(): f()
StmtDefFRecursive == FunctionNode(Id_f, <<Id_f>>)
\*   def f(): a.r(); b.r()
StmtDefFCallsR == FunctionNode(Id_f, <<Call_a_r, Call_b_r>>)
\*   def f(): os.p()
StmtDefFCallsOs == FunctionNode(Id_f, <<Call_os_p>>)
\*   def g(): f()
StmtDefGCallsF == FunctionNode(Id_g, <<Id_f>>)
\*   def g(): os.p(); h()
StmtDefGCallsOsH == FunctionNode(Id_g, <<Call_os_p, Id_h>>)
\*   def g(): k()
StmtDefGCallsK == FunctionNode(Id_g, <<Id_k>>)
\*   class C:
\*       x = 1
\*       def r(self): self.r()
StmtClassC == ClassNode(Id_C, <<AssignNode, FunctionNode(Id_r, <<Call_self_r>>)>>)
\*   class D:
\*       def r(self): f()
StmtClassD == ClassNode(Id_D, <<FunctionNode(Id_r, <<Id_f>>)>>)
\*   class f:
\*       x = 1
\*       def m(self): pass
StmtClassNamedF == ClassNode(Id_f, <<AssignNode, FunctionNode(Id_m, <<>>)>>)
\*   class C:
\*       class N:
\*           def m(self): pass
\*       def r(self): pass
StmtClassNested ==
    ClassNode(Id_C, <<ClassNode(Id_N, <<FunctionNode(Id_m, <<>>)>>), FunctionNode(Id_r, <<>>)>>)
\*   class C:
\*       def f(self): f()
StmtClassMethodF == ClassNode(Id_C, <<FunctionNode(Id_f, <<Id_f>>)>>)
\*   class D:
\*       def f(self): pass
\*       def r(self): f()
StmtClassTwoMethods ==
    ClassNode(Id_D, <<FunctionNode(Id_f, <<>>), FunctionNode(Id_r, <<Id_f>>)>>)

Statements ==
    {StmtImportOs, StmtImportOss, StmtFromImport, StmtFromImportTwo, StmtFromImportF,
     StmtDefF, StmtDefFRecursive, StmtDefFCallsR, StmtDefFCallsOs,
     StmtDefGCallsF, StmtDefGCallsOsH, StmtDefGCallsK,
     StmtClassC, StmtClassD, StmtClassNamedF, StmtClassNested, StmtClassMethodF,
     StmtClassTwoMethods}

\* Sequences of at most n elements of S.
RECURSIVE SeqsUpTo(_, _)
SeqsUpTo(S, n) ==
    IF n = 0 THEN {<<>>}
    ELSE LET shorter == SeqsUpTo(S, n - 1)
         IN  shorter \cup {Append(q, x) : q \in shorter, x \in S}

\* The module bodies of the source files: tree.body of ast.parse(content).
\* A longer file: a function f that has the name of an imported name, and a
\* caller of it.
\*   from q import f
\*   def f(): pass
\*   def g(): f()
FileShadowedImport == <<StmtFromImportF, StmtDefF, StmtDefGCallsF>>

LongerFiles == {FileShadowedImport}

ModuleBodies == {Place(stmts, 1) : stmts \in SeqsUpTo(Statements, MaxTop) \cup LongerFiles}

\* Number of lines of a source file.
LineCount(body) == LinesOfAll(body)

-----------------------------------------------------------------------------
(* Fragments of the texts the code builds *)

KwImport == <<"i", "m", "p", "o", "r", "t", " ">>
KwFrom == <<"f", "r", "o", "m", " ">>
KwSpaceImport == <<" ", "i", "m", "p", "o", "r", "t">>
KwSpaceImportSpace == <<" ", "i", "m", "p", "o", "r", "t", " ">>
KwAs == <<"a", "s", " ">>
KwSpaceAs == <<" ", "a", "s", " ">>
CommaSpace == <<",", " ">>
Dot == <<".">>

\* ast.unparse of an alias: `name` or `name as asname`
UnparseAlias(alias) ==
    IF alias.asname = <<>> THEN alias.name ELSE alias.name \o KwSpaceAs \o alias.asname

\* ast.unparse of an Import or ImportFrom statement
UnparseImport(node) ==
    LET aliases == Join([i \in 1..Len(node.names) |-> UnparseAlias(node.names[i])], CommaSpace)
    IN  IF node.kind = "Import" THEN KwImport \o aliases
        ELSE KwFrom \o node.module \o KwSpaceImportSpace \o aliases

\* `if x:` for a str or None
TruthyStr(opt) == opt.some /\ opt.v # <<>>

\* call_name for call_name in ... if call_name
NonEmptyCalls(calls) == SelectSeq(calls, LAMBDA c : c # <<>>)

-----------------------------------------------------------------------------
(* ast_analyzer.CodeAnalyzer *)

\* CodeAnalyzer.__init__
CodeAnalyzerInit ==
    [imports |-> <<>>, function_defs |-> EmptyDict, class_defs |-> EmptyDict,
     function_calls |-> EmptyDict, method_calls |-> EmptyDict,
     current_class_name |-> None]

\* CodeAnalyzer.visit_Import: one entry per alias, without its asname
CA_visit_Import(an, node) ==
    [an EXCEPT !.imports = @ \o [i \in 1..Len(node.names) |-> KwImport \o node.names[i].name]]

\* CodeAnalyzer.visit_ImportFrom
CA_visit_ImportFrom(an, node) ==
    [an EXCEPT !.imports =
        Append(@, KwFrom \o node.module \o KwSpaceImportSpace
                  \o Join([i \in 1..Len(node.names) |-> node.names[i].name], CommaSpace))]

\* CodeAnalyzer.visit_FunctionDef (it does not visit the function's body)
CA_visit_FunctionDef(an, node) ==
    IF TruthyStr(an.current_class_name)
    THEN LET cls == an.current_class_name.v
             mc == IF DictHas(an.method_calls, cls) THEN an.method_calls
                   ELSE DictPut(an.method_calls, cls, EmptyDict)
         IN  [an EXCEPT !.method_calls =
                 DictPut(mc, cls, DictPut(DictGet(mc, cls), node.name, NonEmptyCalls(node.calls)))]
    ELSE [an EXCEPT !.function_defs = DictPut(@, node.name, node),
                    !.function_calls = DictPut(@, node.name, NonEmptyCalls(node.calls))]

RECURSIVE CA_visit(_, _), CA_generic_visit(_, _)

\* CodeAnalyzer.visit_ClassDef
CA_visit_ClassDef(an, node) ==
    LET entered == [an EXCEPT !.current_class_name = Some(node.name),
                              !.class_defs = DictPut(@, node.name, node),
                              !.method_calls = DictPut(@, node.name, EmptyDict)]
    IN  [CA_generic_visit(entered, node.body) EXCEPT !.current_class_name = None]

\* NodeVisitor.visit: dispatch on the node class
CA_visit(an, node) ==
    CASE node.kind = "Import" -> CA_visit_Import(an, node)
      [] node.kind = "ImportFrom" -> CA_visit_ImportFrom(an, node)
      [] node.kind = "ClassDef" -> CA_visit_ClassDef(an, node)
      [] node.kind = "FunctionDef" -> CA_visit_FunctionDef(an, node)
      [] OTHER -> an

\* NodeVisitor.generic_visit: visit the child statements in order
CA_generic_visit(an, nodes) ==
    IF nodes = <<>> THEN an ELSE CA_generic_visit(CA_visit(an, Head(nodes)), Tail(nodes))

\* analyzer = CodeAnalyzer(); analyzer.visit(tree)
CodeAnalyzer(body) == CA_generic_visit(CodeAnalyzerInit, body)

-----------------------------------------------------------------------------
(* github_api.AstParser *)

\* FunctionInfo(node), with signature and body_source as visit_FunctionDef
\* sets them.  signature is the text of the source lines from the def line to
\* the first statement of the body, body_source the unparsed node: both are
\* kept as the place of that text in the file (the def line) with the name.
FunctionInfo(node) ==
    [name |-> node.name, start_line |-> node.lineno, end_line |-> node.end_lineno,
     calls |-> NonEmptyCalls(node.calls),
     signature |-> [def_line |-> node.lineno, name |-> node.name],
     body_source |-> [def_line |-> node.lineno, name |-> node.name]]

\* ClassInfo that takes the class line for the whole range of the class.
ClassInfo_class_line_only(node) ==
    [name |-> node.name, start_line |-> node.lineno, end_line |-> node.lineno,
     methods |-> EmptyDict]

\* ClassInfo(node)
ClassInfo(node) ==
    [name |-> node.name, start_line |-> node.lineno, end_line |-> node.end_lineno,
     methods |-> EmptyDict]

\* AstParser.__init__
AstParserInit ==
    [imports |-> <<>>, functions |-> EmptyDict, classes |-> EmptyDict,
     current_class_name |-> None]

\* AstParser.visit_Import and visit_ImportFrom
AP_visit_Import(ps, node) == [ps EXCEPT !.imports = Append(@, UnparseImport(node))]

\* AstParser.visit_FunctionDef (it does not visit the function's body)
AP_visit_FunctionDef(ps, node) ==
    IF TruthyStr(ps.current_class_name)
    THEN LET cls == ps.current_class_name.v
         IN  IF DictHas(ps.classes, cls)
             THEN [ps EXCEPT !.classes =
                     DictPut(@, cls, [DictGet(@, cls) EXCEPT
                                         !.methods = DictPut(@, node.name, FunctionInfo(node))])]
             ELSE ps
    ELSE [ps EXCEPT !.functions = DictPut(@, node.name, FunctionInfo(node))]

RECURSIVE AP_visit(_, _), AP_generic_visit(_, _)

\* AstParser.visit_ClassDef
AP_visit_ClassDef(ps, node) ==
    LET entered == [ps EXCEPT !.classes = DictPut(@, node.name, ClassInfo(node)),
                              !.current_class_name = Some(node.name)]
    IN  [AP_generic_visit(entered, node.body) EXCEPT !.current_class_name = None]

\* NodeVisitor.visit: dispatch on the node class
AP_visit(ps, node) ==
    CASE node.kind \in {"Import", "ImportFrom"} -> AP_visit_Import(ps, node)
      [] node.kind = "ClassDef" -> AP_visit_ClassDef(ps, node)
      [] node.kind = "FunctionDef" -> AP_visit_FunctionDef(ps, node)
      [] OTHER -> ps

\* NodeVisitor.generic_visit: visit the child statements in order
AP_generic_visit(ps, nodes) ==
    IF nodes = <<>> THEN ps ELSE AP_generic_visit(AP_visit(ps, Head(nodes)), Tail(nodes))

\* parser = AstParser(file_content); parser.visit(ast.parse(file_content))
AstParser(body) == AP_generic_visit(AstParserInit, body)

-----------------------------------------------------------------------------
(* ast_analyzer: localization and context of one file *)

\* One element of the list of text parts a function builds.  tag names the
\* f-string (or value) the part comes from, the other fields hold what the
\* code puts into it; a field the part has no use for is empty.
Part(tag, kind, file, name, of, call, text) ==
    [tag |-> tag, kind |-> kind, file |-> file, name |-> name, of |-> of,
     call |-> call, text |-> text]

\* any(start <= line <= end for line in added_lines), start and end from
\* _get_node_line_range(node)
AnyLineIn(added_lines, node) ==
    \E line \in added_lines : node.lineno <= line /\ line <= node.end_lineno

\* The first loop of _find_relevant_nodes, over function_defs.items();
\* acc is [relevant_nodes, processed_nodes].
RECURSIVE FRN_Functions(_, _, _)
FRN_Functions(items, added_lines, acc) ==
    IF items = <<>> THEN acc
    ELSE LET func_name == Head(items).k
             node == Head(items).v
             next == IF AnyLineIn(added_lines, node) /\ func_name \notin acc.processed_nodes
                     THEN [relevant_nodes |-> Append(acc.relevant_nodes,
                                                     [name |-> func_name, node |-> node]),
                           processed_nodes |-> acc.processed_nodes \cup {func_name}]
                     ELSE acc
         IN  FRN_Functions(Tail(items), added_lines, next)

\* The second loop of _find_relevant_nodes, over class_defs.items().
RECURSIVE FRN_Classes(_, _, _)
FRN_Classes(items, added_lines, acc) ==
    IF items = <<>> THEN acc
    ELSE LET class_name == Head(items).k
             node == Head(items).v
             class_or_method_changed ==
                 \/ AnyLineIn(added_lines, node)
                 \/ \E i \in 1..Len(node.body) :
                        /\ node.body[i].kind = "FunctionDef"
                        /\ AnyLineIn(added_lines, node.body[i])
             next == IF class_name \in acc.processed_nodes THEN acc
                     ELSE IF class_or_method_changed
                     THEN [relevant_nodes |-> Append(acc.relevant_nodes,
                                                     [name |-> class_name, node |-> node]),
                           processed_nodes |-> acc.processed_nodes \cup {class_name}]
                     ELSE acc
         IN  FRN_Classes(Tail(items), added_lines, next)

\* _find_relevant_nodes(analyzer, added_lines): the list of (name, node)
find_relevant_nodes(analyzer, added_lines) ==
    FRN_Classes(analyzer.class_defs, added_lines,
                FRN_Functions(analyzer.function_defs, added_lines,
                              [relevant_nodes |-> <<>>, processed_nodes |-> {}])).relevant_nodes

\* calls_made: function_calls.get(node_name, []) for a function, the calls of
\* all methods of method_calls.get(node_name, {}) for a class
RECURSIVE ConcatValues(_)
ConcatValues(d) == IF d = <<>> THEN <<>> ELSE Head(d).v \o ConcatValues(Tail(d))

CallsMade(node_name, node, analyzer) ==
    IF node.kind = "FunctionDef"
    THEN IF DictHas(analyzer.function_calls, node_name)
         THEN DictGet(analyzer.function_calls, node_name) ELSE <<>>
    ELSE IF DictHas(analyzer.method_calls, node_name)
         THEN ConcatValues(DictGet(analyzer.method_calls, node_name)) ELSE <<>>

\* The import test of _extract_node_context:
\* f"import {base_name}" in imp or f"from {base_name}" in imp or f".{base_name}" in imp
ENC_ImportMatches(base_name, imp) ==
    \/ Contains(imp, KwImport \o base_name)
    \/ Contains(imp, KwFrom \o base_name)
    \/ Contains(imp, Dot \o base_name)

\* First element of seq that satisfies Test (index 0 when there is none).
FirstIndex(seq, Test(_)) ==
    IF \E i \in 1..Len(seq) : Test(seq[i])
    THEN CHOOSE i \in 1..Len(seq) : Test(seq[i]) /\ \A j \in 1..(i - 1) : ~Test(seq[j])
    ELSE 0

\* call_context of _extract_node_context for one call of unique_calls
ENC_CallContext(call, analyzer) ==
    LET base_name == SplitFirst(call)
        imp == FirstIndex(analyzer.imports, LAMBDA t : ENC_ImportMatches(base_name, t))
        cls == FirstIndex(analyzer.method_calls, LAMBDA it : DictHas(it.v, call))
        c_name == analyzer.method_calls[cls].k
        class_node == DictGet(analyzer.class_defs, c_name)
        m == FirstIndex(class_node.body,
                        LAMBDA b : b.kind = "FunctionDef" /\ b.name = call)
    IN  IF imp # 0
        THEN Part("call_context", "import", <<>>, <<>>, 0, call, analyzer.imports[imp])
        ELSE IF DictHas(analyzer.function_defs, call)
        THEN Part("call_context", "function", <<>>, <<>>,
                  DictGet(analyzer.function_defs, call).lineno, call, <<>>)
        ELSE IF cls # 0 /\ DictHas(analyzer.class_defs, c_name) /\ m # 0
        THEN Part("call_context", "method", <<>>, c_name, class_node.body[m].lineno, call, <<>>)
        ELSE Part("call_context", "unresolved", <<>>, <<>>, 0, call, <<>>)

\* _extract_node_context(node_name, node, analyzer, file_path)
extract_node_context(node_name, node, analyzer, file_path) ==
    LET node_type == IF node.kind = "FunctionDef" THEN "Function" ELSE "Class"
        calls_made == CallsMade(node_name, node, analyzer)
        unique_calls == sorted(ListOfSet(Range(calls_made)))
    IN  <<Part("full_definition", node_type, file_path, node_name, 0, <<>>, <<>>),
          Part("source_code", node_type, <<>>, node.name, node.lineno, <<>>, <<>>)>>
        \o (IF calls_made # <<>>
            THEN <<Part("calls_made_by", "", <<>>, node_name, 0, <<>>, <<>>)>>
                 \o [i \in 1..Len(unique_calls) |-> ENC_CallContext(unique_calls[i], analyzer)]
            ELSE <<>>)

\* The loop `for node_name, node in relevant_nodes` of generate_context_code;
\* acc is [file_context_parts, processed_node_names].
RECURSIVE GCC_Nodes(_, _, _, _)
GCC_Nodes(relevant_nodes, analyzer, file_path, acc) ==
    IF relevant_nodes = <<>> THEN acc.file_context_parts
    ELSE LET node_name == Head(relevant_nodes).name
             node == Head(relevant_nodes).node
             next == IF node_name \in acc.processed_node_names THEN acc
                     ELSE [file_context_parts |->
                               acc.file_context_parts
                                   \o extract_node_context(node_name, node, analyzer, file_path),
                           processed_node_names |-> acc.processed_node_names \cup {node_name}]
         IN  GCC_Nodes(Tail(relevant_nodes), analyzer, file_path, next)

\* What one iteration of the loop over changed_py_files.items() of
\* generate_context_code appends to overall_context_parts, given the value of
\* _analyze_python_file (None, or Some(analyzer)).
GCC_FileParts(file_path, analyzer, added_lines) ==
    IF ~analyzer.some
    THEN <<Part("could_not_analyze", "", file_path, <<>>, 0, <<>>, <<>>),
           Part("newline", "", <<>>, <<>>, 0, <<>>, <<>>)>>
    ELSE LET relevant_nodes == find_relevant_nodes(analyzer.v, added_lines)
             node_parts == GCC_Nodes(relevant_nodes, analyzer.v, file_path,
                                     [file_context_parts |-> <<>>, processed_node_names |-> {}])
             sorted_imports == sorted(ListOfSet(Range(analyzer.v.imports)))
             file_context_parts ==
                 node_parts
                 \o (IF node_parts # <<>> /\ analyzer.v.imports # <<>>
                     THEN <<Part("relevant_imports", "", file_path, <<>>, 0, <<>>, <<>>)>>
                          \o [i \in 1..Len(sorted_imports) |->
                                Part("import", "", <<>>, <<>>, 0, <<>>, sorted_imports[i])]
                     ELSE <<>>)
         IN  IF relevant_nodes = <<>> THEN <<>>
             ELSE IF file_context_parts # <<>>
             THEN file_context_parts \o <<Part("newline", "", <<>>, <<>>, 0, <<>>, <<>>)>>
             ELSE <<>>

-----------------------------------------------------------------------------
(* github_api.get_contextual_code: localization and context of one file *)

\* changed_lines.intersection(range(info.start_line, info.end_line + 1))
IntersectsRange(changed_lines, info) ==
    changed_lines \cap (info.start_line..info.end_line) # {}

\* The ("Function", func_info, None) entries of changed_blocks_in_file
GCX_ChangedFunctions(parser, changed_lines) ==
    LET hit == SelectSeq(parser.functions, LAMBDA it : IntersectsRange(changed_lines, it.v))
    IN  [i \in 1..Len(hit) |->
            [block_type |-> "Function", block_info |-> hit[i].v, parent_class_name |-> None]]

\* The ("Method", method_info, class_name) entries, class after class
RECURSIVE GCX_ChangedMethods(_, _)
GCX_ChangedMethods(class_items, changed_lines) ==
    IF class_items = <<>> THEN <<>>
    ELSE LET class_name == Head(class_items).k
             hit == SelectSeq(Head(class_items).v.methods,
                              LAMBDA it : IntersectsRange(changed_lines, it.v))
         IN  [i \in 1..Len(hit) |->
                 [block_type |-> "Method", block_info |-> hit[i].v,
                  parent_class_name |-> Some(class_name)]]
             \o GCX_ChangedMethods(Tail(class_items), changed_lines)

\* changed_blocks_in_file
changed_blocks_in_file(parser, changed_lines) ==
    GCX_ChangedFunctions(parser, changed_lines)
        \o GCX_ChangedMethods(parser.classes, changed_lines)

\* The import test of get_contextual_code:
\* f"import {base_call}" in imp or f"from {base_call} import" in imp or f"as {base_call}" in imp
GCX_ImportMatches(base_call, imp) ==
    \/ Contains(imp, KwImport \o base_call)
    \/ Contains(imp, KwFrom \o base_call \o KwSpaceImport)
    \/ Contains(imp, KwAs \o base_call)

\* The local definition a call of the block resolves to: found_local and
\* local_sig after lines 579-596.
GCX_LocalSignature(call, block, parser) ==
    LET block_name == block.block_info.name
        potential_method_name == SplitLast(call)
        cls == FirstIndex(parser.classes,
                   LAMBDA it : /\ DictHas(it.v.methods, potential_method_name)
                               /\ ~(/\ block.parent_class_name = Some(it.v.name)
                                    /\ potential_method_name = block_name))
    IN  IF DictHas(parser.functions, call)
        THEN IF call # block_name
             THEN [found_local |-> TRUE, local_sig |-> DictGet(parser.functions, call).signature]
             ELSE [found_local |-> FALSE, local_sig |-> [def_line |-> 0, name |-> <<>>]]
        ELSE IF cls # 0
             THEN [found_local |-> TRUE,
                   local_sig |-> DictGet(parser.classes[cls].v.methods,
                                         potential_method_name).signature]
             ELSE [found_local |-> FALSE, local_sig |-> [def_line |-> 0, name |-> <<>>]]

\* The loop `for call in block_info.calls`; st holds call_signatures and
\* relevant_imports of the block and processed_signatures_for_file and
\* processed_imports_for_file of the file.
RECURSIVE GCX_Calls(_, _, _, _)
GCX_Calls(calls, block, parser, st) ==
    IF calls = <<>> THEN st
    ELSE LET call == Head(calls)
             res == GCX_LocalSignature(call, block, parser)
             base_call == SplitFirst(call)
             imp == FirstIndex(parser.imports,
                       LAMBDA t : /\ GCX_ImportMatches(base_call, t)
                                  /\ t \notin st.processed_imports_for_file)
             next ==
                 IF res.found_local /\ call \notin st.processed_signatures_for_file
                 THEN [st EXCEPT
                         !.call_signatures = @ \o
                             <<Part("signature_of", "", <<>>, <<>>, 0, call, <<>>),
                               Part("signature", "", <<>>, res.local_sig.name,
                                    res.local_sig.def_line, call, <<>>)>>,
                         !.processed_signatures_for_file = @ \cup {call}]
                 ELSE IF ~res.found_local /\ imp # 0
                 THEN [st EXCEPT
                         !.relevant_imports = @ \cup {parser.imports[imp]},
                         !.processed_imports_for_file = @ \cup {parser.imports[imp]}]
                 ELSE st
         IN  GCX_Calls(Tail(calls), block, parser, next)

\* The loop over changed_blocks_in_file; st holds file_context_parts and the
\* two processed sets of the file.
RECURSIVE GCX_Blocks(_, _, _)
GCX_Blocks(blocks, parser, st) ==
    IF blocks = <<>> THEN st.file_context_parts
    ELSE LET block == Head(blocks)
             block_name == block.block_info.name
             block_display_name ==
                 IF TruthyStr(block.parent_class_name)
                 THEN block.parent_class_name.v \o Dot \o block_name ELSE block_name
             done == GCX_Calls(block.block_info.calls, block, parser,
                        [call_signatures |-> <<>>, relevant_imports |-> {},
                         processed_signatures_for_file |-> st.processed_signatures_for_file,
                         processed_imports_for_file |-> st.processed_imports_for_file])
             sorted_imports == sorted(ListOfSet(done.relevant_imports))
             parts ==
                 <<Part("context_for_changed", block.block_type, <<>>, block_display_name,
                        0, <<>>, <<>>),
                   Part("full_definition", "", <<>>, <<>>, 0, <<>>, <<>>),
                   Part("body_source", "", <<>>, block.block_info.body_source.name,
                        block.block_info.body_source.def_line, <<>>, <<>>)>>
                 \o done.call_signatures
                 \o (IF done.relevant_imports # {}
                     THEN <<Part("relevant_imports", "", <<>>, <<>>, 0, <<>>, <<>>)>>
                          \o [i \in 1..Len(sorted_imports) |->
                                Part("import", "", <<>>, <<>>, 0, <<>>, sorted_imports[i])]
                     ELSE <<>>)
         IN  GCX_Blocks(Tail(blocks), parser,
                 [file_context_parts |-> st.file_context_parts \o parts,
                  processed_signatures_for_file |-> done.processed_signatures_for_file,
                  processed_imports_for_file |-> done.processed_imports_for_file])

\* What one iteration of the main loop of get_contextual_code appends to
\* context_parts, given the value of get_parsed_file (None, or Some(parser)).
GCX_FileParts(filename, parser, changed_lines) ==
    IF ~EndsWith(filename, PyExt) THEN <<>>
    ELSE IF ~parser.some
    THEN <<Part("skipped_file", "", filename, <<>>, 0, <<>>, <<>>)>>
    ELSE LET blocks == changed_blocks_in_file(parser.v, changed_lines)
         IN  IF blocks = <<>> THEN <<>>
             ELSE GCX_Blocks(blocks, parser.v,
                     [file_context_parts |->
                          <<Part("context_from_file", "", filename, <<>>, 0, <<>>, <<>>)>>,
                      processed_signatures_for_file |-> {},
                      processed_imports_for_file |-> {}])

-----------------------------------------------------------------------------
(* One source file going through both extractors *)

\* The path of the file.
PathA == <<"a", ".", "p", "y">>

FileStart ==
    /\ stage = "start"
    /\ tree = <<>>
    /\ lines = {}
    /\ code_analyzer = CodeAnalyzerInit
    /\ ast_parser = AstParserInit
    /\ relevant = <<>>
    /\ changed = <<>>
    /\ gen_file_parts = <<>>
    /\ ctx_file_parts = <<>>

\* The file is fetched and parsed, and both visitors walk the tree
\* (_analyze_python_file lines 153-156, get_parsed_file lines 514-518).
Analyze(body) ==
    /\ stage = "start"
    /\ stage' = "analyzed"
    /\ tree' = body
    /\ code_analyzer' = CodeAnalyzer(body)
    /\ ast_parser' = AstParser(body)
    /\ UNCHANGED <<lines, relevant, changed, gen_file_parts, ctx_file_parts>>
    /\ UNCHANGED <<diffVars, runVars, evalVars, mainVars, hash_seed>>

\* The changed lines of the file, a run lo..hi of lines of the new revision,
\* are mapped onto the definitions (_find_relevant_nodes, and lines 547-554 of
\* get_contextual_code).
Localize(lo, hi) ==
    /\ stage = "analyzed"
    /\ lo <= hi
    /\ stage' = "localized"
    /\ lines' = lo..hi
    /\ relevant' = find_relevant_nodes(code_analyzer, lo..hi)
    /\ changed' = changed_blocks_in_file(ast_parser, lo..hi)
    /\ UNCHANGED <<tree, code_analyzer, ast_parser, gen_file_parts, ctx_file_parts>>
    /\ UNCHANGED <<diffVars, runVars, evalVars, mainVars, hash_seed>>

\* The context of the file is assembled (the loop bodies of
\* generate_context_code and get_contextual_code).
Assemble ==
    /\ stage = "localized"
    /\ stage' = "assembled"
    /\ gen_file_parts' = GCC_FileParts(PathA, Some(code_analyzer), lines)
    /\ ctx_file_parts' = GCX_FileParts(PathA, Some(ast_parser), lines)
    /\ UNCHANGED <<tree, lines, code_analyzer, ast_parser, relevant, changed>>
    /\ UNCHANGED <<diffVars, runVars, evalVars, mainVars, hash_seed>>

NextFile ==
    \/ \E body \in ModuleBodies : Analyze(body)
    \/ \E lo, hi \in 1..LineCount(tree) : Localize(lo, hi)
    \/ Assemble

-----------------------------------------------------------------------------
(* A run of both extractors over the files of a change set *)

\* Greatest line number of a change set.
MaxChangedLine == 2

PathB == <<"b", ".", "p", "y">>
Paths == {PathA, PathB}

\* The source files of the repository.
\*   def f(): a.r(); b.r()
\*   class C: ...
FileCallsR == Place(<<StmtDefFCallsR, StmtClassC>>, 1)
\*   def g(): os.p(); h()
\*   import os
\*   from q import p as h
FileImports == Place(<<StmtDefGCallsOsH, StmtImportOs, StmtFromImport>>, 1)
\*   import os
FileNoDefinition == Place(<<StmtImportOs>>, 1)

\* What the repository holds at a path: nothing that can be fetched, a
\* directory, or a file; a file is blank (only white space), or is not valid
\* Python, or parses into a module body.
Content(kind, body) == [kind |-> kind, body |-> body]
Contents ==
    {Content(k, <<>>) : k \in {"fetch_failed", "directory", "blank", "syntax_error"}}
        \cup {Content("ok", b) : b \in {FileCallsR, FileImports, FileNoDefinition}}

\* get_file_content(pr, file_path): the text of the file, None when it cannot
\* be fetched
get_file_content(content) ==
    IF content.kind \in {"fetch_failed", "directory"} THEN None ELSE Some(content)

\* The result of a call: a value, or an exception that leaves the function.
Returned(v) == [raised |-> FALSE, v |-> v]
Raised == [raised |-> TRUE, v |-> None]

\* ast.parse(text): the module body, SyntaxError for text that is not Python
ast_parse(content) ==
    IF content.kind = "syntax_error" THEN Raised
    ELSE IF content.kind = "blank" THEN Returned(<<>>)
    ELSE Returned(content.body)

\* _analyze_python_file without its except clauses.
analyze_python_file_uncaught(content) ==
    LET full_content == get_file_content(content)
    IN  IF ~full_content.some THEN Returned(None)
        ELSE IF full_content.v.kind = "blank" THEN Returned(None)
        ELSE LET module == ast_parse(full_content.v)
             IN  IF module.raised THEN Raised ELSE Returned(Some(CodeAnalyzer(module.v)))

\* _analyze_python_file(file_path, pr)
analyze_python_file(content) ==
    LET full_content == get_file_content(content)
    IN  IF ~full_content.some THEN Returned(None)
        ELSE IF full_content.v.kind = "blank" THEN Returned(None)
        ELSE LET module == ast_parse(full_content.v)
             IN  IF module.raised THEN Returned(None)
                 ELSE Returned(Some(CodeAnalyzer(module.v)))

\* get_parsed_file that never stores what it parsed.
get_parsed_file_uncached(filename, content, cache) ==
    IF DictHas(cache, filename) THEN [res |-> Returned(Some(DictGet(cache, filename))), cache |-> cache]
    ELSE IF content.kind = "fetch_failed" THEN [res |-> Returned(None), cache |-> cache]
    ELSE IF content.kind = "directory" THEN [res |-> Returned(None), cache |-> cache]
    ELSE LET module == ast_parse(content)
         IN  IF module.raised THEN [res |-> Returned(None), cache |-> cache]
             ELSE [res |-> Returned(Some(AstParser(module.v))), cache |-> cache]

\* get_parsed_file(filename) of get_contextual_code: the parser (None when the
\* file cannot be fetched or parsed) and parsed_file_cache after the call
get_parsed_file(filename, content, cache) ==
    IF DictHas(cache, filename) THEN [res |-> Returned(Some(DictGet(cache, filename))), cache |-> cache]
    ELSE IF content.kind = "fetch_failed" THEN [res |-> Returned(None), cache |-> cache]
    ELSE IF content.kind = "directory" THEN [res |-> Returned(None), cache |-> cache]
    ELSE LET module == ast_parse(content)
         IN  IF module.raised THEN [res |-> Returned(None), cache |-> cache]
             ELSE [res |-> Returned(Some(AstParser(module.v))),
                   cache |-> DictPut(cache, filename, AstParser(module.v))]

\* The calls one call of get_parsed_file makes: none when the file is in the
\* cache, else repo.get_contents (line 503) and, when that gave a file,
\* ast.parse (line 515).
CallsOfGetParsedFile(filename, content, cache) ==
    IF DictHas(cache, filename) THEN <<>>
    ELSE <<[op |-> "get_contents", path |-> filename]>>
         \o (IF content.kind \in {"fetch_failed", "directory"} THEN <<>>
             ELSE <<[op |-> "ast.parse", path |-> filename]>>)

\* "\n".join(parts).strip(): the parts without the white space at both ends
RECURSIVE StripParts(_)
StripParts(parts) ==
    IF parts = <<>> THEN <<>>
    ELSE IF parts[Len(parts)].tag = "newline" THEN StripParts(SubSeq(parts, 1, Len(parts) - 1))
    ELSE IF Head(parts).tag = "newline" THEN StripParts(Tail(parts))
    ELSE parts

\* The change sets: at most one entry per path, the lines of an entry a run
\* lo..hi of lines or (for a file with no added line) none.
LineSets == {{}} \cup {lo..hi : lo, hi \in 1..MaxChangedLine}
ChangeSets ==
    {<<>>}
        \cup {<<[k |-> f, v |-> l]>> : f \in Paths, l \in LineSets}
        \cup {<<[k |-> fg[1], v |-> l], [k |-> fg[2], v |-> m]>> :
                  fg \in {x \in Paths \X Paths : x[1] # x[2]},
                  l \in LineSets, m \in LineSets}

RunStart ==
    /\ pc = "idle"
    /\ run_no = "none"
    /\ repo = [f \in Paths |-> Content("fetch_failed", <<>>)]
    /\ files = <<>>
    /\ pos = 0
    /\ overall_context_parts = <<>>
    /\ gen_raised = FALSE
    /\ gen_out = <<>>
    /\ parsed_file_cache = EmptyDict
    /\ context_parts = <<>>
    /\ ctx_raised = FALSE
    /\ ctx_out = <<>>
    /\ prev_gen_out = <<>>
    /\ prev_ctx_out = <<>>
    /\ prev_hash_seed = hash_seed
    /\ fetch_log = <<>>

\* The first run starts: the diff parser has returned change set cs for a
\* repository that holds `holds` (nothing at the paths the change set does
\* not name, which are never read), and generate_context_code is entered.
Start(cs, holds) ==
    /\ pc = "idle"
    /\ \A f \in Paths \ DictKeys(cs) : holds[f] = Content("fetch_failed", <<>>)
    /\ pc' = "gen"
    /\ run_no' = "first"
    /\ files' = cs
    /\ repo' = holds
    /\ UNCHANGED <<pos, overall_context_parts, gen_raised, gen_out, parsed_file_cache,
                   context_parts, ctx_raised, ctx_out, prev_gen_out, prev_ctx_out, prev_hash_seed, fetch_log>>
    /\ UNCHANGED <<diffVars, fileVars, evalVars, mainVars, hash_seed>>

\* One iteration of `for file_path, added_lines in changed_py_files.items()`
\* of generate_context_code.
GenFile ==
    /\ pc = "gen"
    /\ pos < Len(files)
    /\ LET file_path == files[pos + 1].k
           added_lines == files[pos + 1].v
           res == analyze_python_file(repo[file_path])
       IN  IF res.raised
           THEN /\ gen_raised' = TRUE
                /\ pc' = "ctx"
                /\ pos' = 0
                /\ UNCHANGED overall_context_parts
           ELSE /\ overall_context_parts' =
                       overall_context_parts \o GCC_FileParts(file_path, res.v, added_lines)
                /\ pos' = pos + 1
                /\ UNCHANGED <<gen_raised, pc>>
    /\ UNCHANGED <<run_no, repo, files, gen_out, parsed_file_cache, context_parts,
                   ctx_raised, ctx_out, prev_gen_out, prev_ctx_out, prev_hash_seed, fetch_log>>
    /\ UNCHANGED <<diffVars, fileVars, evalVars, mainVars, hash_seed>>

\* generate_context_code returns (at once for an empty change set), and
\* get_contextual_code is entered.
GenReturn ==
    /\ pc = "gen"
    /\ pos = Len(files)
    /\ gen_out' = StripParts(overall_context_parts)
    /\ pc' = "ctx"
    /\ pos' = 0
    /\ UNCHANGED <<run_no, repo, files, overall_context_parts, gen_raised, parsed_file_cache,
                   context_parts, ctx_raised, ctx_out, prev_gen_out, prev_ctx_out, prev_hash_seed, fetch_log>>
    /\ UNCHANGED <<diffVars, fileVars, evalVars, mainVars, hash_seed>>

\* changed_py_files of get_contextual_code: parse_diff_hunks drops the files
\* with no added line.
CtxFiles == NonEmptyItems(files)

\* One iteration of `for filename, changed_lines in changed_py_files.items()`
\* of get_contextual_code.
CtxFile ==
    /\ pc = "ctx"
    /\ pos < Len(CtxFiles)
    /\ LET filename == CtxFiles[pos + 1].k
           changed_lines == CtxFiles[pos + 1].v
           got == IF EndsWith(filename, PyExt)
                  THEN get_parsed_file(filename, repo[filename], parsed_file_cache)
                  ELSE [res |-> Returned(None), cache |-> parsed_file_cache]
       IN  IF got.res.raised
           THEN /\ ctx_raised' = TRUE
                /\ pc' = "done"
                /\ UNCHANGED <<context_parts, parsed_file_cache, pos>>
           ELSE /\ context_parts' =
                       context_parts \o GCX_FileParts(filename, got.res.v, changed_lines)
                /\ parsed_file_cache' = got.cache
                /\ pos' = pos + 1
                /\ UNCHANGED <<ctx_raised, pc>>
    /\ fetch_log' = fetch_log \o
           (IF EndsWith(CtxFiles[pos + 1].k, PyExt)
            THEN CallsOfGetParsedFile(CtxFiles[pos + 1].k, repo[CtxFiles[pos + 1].k],
                                      parsed_file_cache)
            ELSE <<>>)
    /\ UNCHANGED <<run_no, repo, files, overall_context_parts, gen_raised, gen_out,
                   ctx_out, prev_gen_out, prev_ctx_out, prev_hash_seed>>
    /\ UNCHANGED <<diffVars, fileVars, evalVars, mainVars, hash_seed>>

\* get_contextual_code returns.
CtxReturn ==
    /\ pc = "ctx"
    /\ pos = Len(CtxFiles)
    /\ ctx_out' = StripParts(context_parts)
    /\ pc' = "done"
    /\ UNCHANGED <<run_no, repo, files, pos, overall_context_parts, gen_raised, gen_out,
                   parsed_file_cache, context_parts, ctx_raised, prev_gen_out, prev_ctx_out, prev_hash_seed, fetch_log>>
    /\ UNCHANGED <<diffVars, fileVars, evalVars, mainVars, hash_seed>>

\* The program is run again on the same diff and the same repository, in a
\* new process with hash seed `seed`.
Rerun(seed) ==
    /\ pc = "done"
    /\ run_no = "first"
    /\ ~gen_raised /\ ~ctx_raised
    /\ run_no' = "second"
    /\ hash_seed' = seed
    /\ prev_gen_out' = gen_out
    /\ prev_ctx_out' = ctx_out
    /\ prev_hash_seed' = hash_seed
    /\ pc' = "gen"
    /\ pos' = 0
    /\ overall_context_parts' = <<>>
    /\ gen_out' = <<>>
    /\ parsed_file_cache' = EmptyDict
    /\ context_parts' = <<>>
    /\ ctx_out' = <<>>
    /\ fetch_log' = <<>>
    /\ UNCHANGED <<repo, files, gen_raised, ctx_raised>>
    /\ UNCHANGED <<diffVars, fileVars, evalVars, mainVars>>

NextRun ==
    \/ \E cs \in ChangeSets, holds \in [Paths -> Contents] : Start(cs, holds)
    \/ GenFile
    \/ GenReturn
    \/ CtxFile
    \/ CtxReturn
    \/ \E seed \in HashSeeds : Rerun(seed)

-----------------------------------------------------------------------------
(* llm_eval.evaluate_intent *)

\* Texts of this section are sequences of words; the blank " " is a word.

\* What os.getenv gives for one of the INPUT_AZURE_OPENAI_* variables: None
\* when it is not set, else its value.
EnvValues == {None, Some(<<>>), Some(<<"v">>)}

\* AZURE_OPENAI_ENDPOINT, AZURE_OPENAI_KEY, AZURE_OPENAI_DEPLOYMENT
AzureEnvs == [endpoint : EnvValues, key : EnvValues, deployment : EnvValues]

\* str(x) as str.format gives it for a str or None
Str(opt) == IF opt.some THEN opt.v ELSE <<"None">>

\* Templates: "{" and "}" are the braces, a word between braces is a field
\* name.
\*   t{requirements}{code_changes}
TemplateNamed == <<"t", "{", "requirements", "}", "{", "code_changes", "}">>
\*   {{requirements}}
TemplateDoubled == <<"{", "{", "requirements", "}", "}">>
\*   {x}
TemplateUnknown == <<"{", "x", "}">>
\*   {0}
TemplatePositional == <<"{", "0", "}">>
\*   t{
TemplateOpen == <<"t", "{">>
\*   t
TemplatePlain == <<"t">>

TemplateStrings ==
    {None, Some(<<>>), Some(TemplateNamed), Some(TemplateDoubled), Some(TemplateUnknown),
     Some(TemplatePositional), Some(TemplateOpen), Some(TemplatePlain)}

FormatOk(text) == [exc |-> "", text |-> text]
FormatRaised(exc) == [exc |-> exc, text |-> <<>>]

\* template_string.format(requirements=issue_body, code_changes=code_diff):
\* doubled braces give one brace, {name} gives str of the keyword of that
\* name, KeyError for another name, IndexError for a positional field (there
\* are no positional arguments), ValueError for a brace on its own.
RECURSIVE Format(_, _, _)
Format(tpl, issue_body, code_diff) ==
    IF tpl = <<>> THEN FormatOk(<<>>)
    ELSE LET c == Head(tpl)
             rest(n) == Format(DropFirst(tpl, n), issue_body, code_diff)
             lit(w, n) == IF rest(n).exc # "" THEN rest(n) ELSE FormatOk(<<w>> \o rest(n).text)
             sub(t, n) == IF rest(n).exc # "" THEN rest(n) ELSE FormatOk(t \o rest(n).text)
         IN  IF c = "{"
             THEN IF HasAt(tpl, 2, <<"{">>) THEN lit("{", 2)
                  ELSE IF HasAt(tpl, 2, <<"}">>) THEN FormatRaised("IndexError")
                  ELSE IF Len(tpl) >= 3 /\ tpl[3] = "}"
                  THEN CASE tpl[2] = "requirements" -> sub(Str(issue_body), 3)
                         [] tpl[2] = "code_changes" -> sub(Str(code_diff), 3)
                         [] tpl[2] \in Digits -> FormatRaised("IndexError")
                         [] OTHER -> FormatRaised("KeyError")
                  ELSE FormatRaised("ValueError")
             ELSE IF c = "}"
             THEN IF HasAt(tpl, 2, <<"}">>) THEN lit("}", 2) ELSE FormatRaised("ValueError")
             ELSE lit(c, 1)

\* str.upper on the words of a response
Upper(w) ==
    CASE w \in {"Result:", "result:"} -> "RESULT:"
      [] w \in {"PASS", "pass"} -> "PASS"
      [] w \in {"FAIL", "Fail"} -> "FAIL"
      [] OTHER -> w

\* First index >= i of s that holds no blank: where a greedy \s* from i stops.
RECURSIVE BlanksEnd(_, _)
BlanksEnd(s, i) == IF i <= Len(s) /\ IsSpace(s[i]) THEN BlanksEnd(s, i + 1) ELSE i

\* The pattern Result:\s*(PASS|FAIL), case ignored, matches at index i.
ResultMatchesAt(s, i) ==
    /\ i <= Len(s) /\ Upper(s[i]) = "RESULT:"
    /\ BlanksEnd(s, i + 1) <= Len(s)
    /\ Upper(s[BlanksEnd(s, i + 1)]) \in {"PASS", "FAIL"}

\* re.search(...): group(1) of the leftmost match, None when there is none.
ResultSearch(s) ==
    IF \E i \in 1..Len(s) : ResultMatchesAt(s, i)
    THEN LET i == CHOOSE k \in 1..Len(s) :
                      ResultMatchesAt(s, k) /\ \A j \in 1..(k - 1) : ~ResultMatchesAt(s, j)
         IN  Some(s[BlanksEnd(s, i + 1)])
    ELSE None

\* Message contents a completion can carry (message.content is None for a
\* completion without text).
MessageContents ==
    {None, Some(<<>>), Some(<<"PASS">>),
     Some(<<"Result:", " ", "PASS">>),
     Some(<<"ok", " ", "result:", "Fail", " ">>),
     Some(<<"Result:", "ok", " ", "Result:", " ", " ", "FAIL">>),
     Some(<<" ", "Result:", " ">>)}

\* What the Azure OpenAI client does in one call of evaluate_intent: the
\* constructor raises, or chat.completions.create raises, or it returns a
\* completion with its list of choices.
ClientRaises(exc) == [at |-> "client", exc |-> exc, choices |-> <<>>]
CreateRaises(exc) == [at |-> "create", exc |-> exc, choices |-> <<>>]
Completion(choices) == [at |-> "response", exc |-> "", choices |-> choices]
ApiOutcomes ==
    {ClientRaises(e) : e \in {"OpenAIError", "Exception"}}
        \cup {CreateRaises(e) : e \in {"OpenAIError", "Exception"}}
        \cup {Completion(<<>>)}
        \cup {Completion(<<c>>) : c \in MessageContents}

\* A return statement of evaluate_intent: the pair it returns and the place
\* it returns from.
Return(result, explanation, from) ==
    [result |-> result, explanation |-> explanation, from |-> from]

\* The two except clauses that close the outer try (lines 170-175).
EI_Except(exc) ==
    IF exc = "OpenAIError"
    THEN Return(None, Some(<<"Azure OpenAI API error: ", exc>>), "openai_error")
    ELSE Return(None, Some(<<"An unexpected error occurred: ", exc>>), "unexpected_error")

\* Lines 152-168: the completion is read and parsed.
EI_Parse(choices) ==
    IF choices = <<>> THEN EI_Except("IndexError")
    ELSE LET response_content == choices[1]
         IN  IF ~response_content.some THEN EI_Except("TypeError")
             ELSE LET result_match == ResultSearch(response_content.v)
                  IN  IF result_match.some
                      THEN Return(Some(Upper(result_match.v)),
                                  Some(Strip(response_content.v)), "parsed")
                      ELSE Return(Some("FAIL"),
                                  Some(<<"Could not parse result from LLM response:\n">>
                                           \o response_content.v), "unparsed")

\* evaluate_intent(issue_body, code_diff, template_string) with the module
\* globals env and the behaviour api of the client.
evaluate_intent(issue_body, code_diff, template_string, env, api) ==
    IF ~(Truthy(env.endpoint) /\ Truthy(env.key) /\ Truthy(env.deployment))
    THEN Return(None, Some(<<"Azure OpenAI credentials (Endpoint, Key, Deployment) not configured.">>),
                "credentials_missing")
    ELSE IF ~Truthy(template_string)
    THEN Return(None, Some(<<"Prompt template string failed to load.">>), "template_missing")
    ELSE IF ~Truthy(code_diff)
    THEN Return(Some("PASS"), Some(<<"No code changes detected in the PR diff.">>), "empty_diff")
    ELSE IF api.at = "client" THEN EI_Except(api.exc)
    ELSE LET final_prompt_text == Format(template_string.v, issue_body, code_diff)
         IN  IF final_prompt_text.exc = "KeyError"
             THEN Return(None, Some(<<"Failed to format prompt template. Missing key: ", "x", ".">>),
                         "format_key_error")
             ELSE IF final_prompt_text.exc # ""
             THEN Return(None, Some(<<"Failed to format prompt template: ", final_prompt_text.exc>>),
                         "format_error")
             ELSE IF api.at = "create" THEN EI_Except(api.exc)
             ELSE EI_Parse(api.choices)

\* Values of issue_body and code_diff: None, the empty text, a text.
Texts == {None, Some(<<>>), Some(<<"d">>)}

\* The module is imported: the three globals are read from the environment.
EvalStart ==
    /\ azure_openai \in AzureEnvs
    /\ eval_args = None
    /\ eval_api = None
    /\ eval_ret = None

\* The environment of a process that sets none of the three variables.
EvalUnset ==
    /\ azure_openai = [endpoint |-> None, key |-> None, deployment |-> None]
    /\ eval_args = None
    /\ eval_api = None
    /\ eval_ret = None

\* The client is reached when the three guards of lines 68-82 are passed.
ClientReached(code_diff, template_string) ==
    /\ Truthy(azure_openai.endpoint) /\ Truthy(azure_openai.key)
    /\ Truthy(azure_openai.deployment)
    /\ Truthy(template_string) /\ Truthy(code_diff)

\* One call of evaluate_intent.
EvaluateIntent(issue_body, code_diff, template_string, api) ==
    /\ eval_args' = Some([issue_body |-> issue_body, code_diff |-> code_diff,
                          template_string |-> template_string])
    /\ eval_api' = IF ClientReached(code_diff, template_string) THEN Some(api) ELSE None
    /\ eval_ret' = Some(evaluate_intent(issue_body, code_diff, template_string,
                                        azure_openai, api))
    /\ UNCHANGED azure_openai
    /\ UNCHANGED <<diffVars, fileVars, runVars, mainVars, hash_seed>>

NextEval ==
    \E issue_body, code_diff \in Texts, template_string \in TemplateStrings,
       api \in ApiOutcomes :
        EvaluateIntent(issue_body, code_diff, template_string, api)

-----------------------------------------------------------------------------
(* main.py: one run of the action *)

\* An int and a PyGithub object, as main hands them to its collaborators.
IntValue(n) == [kind |-> "int", number |-> n]
PullRequestObject(n) == [kind |-> "PullRequest", number |-> n]
IssueObject(n) == [kind |-> "Issue", number |-> n]

\* bool(x) for None, an int or an object
TruthyValue(opt) == opt.some /\ (opt.v.kind = "int" => opt.v.number # 0)

\* What get_pr_details_from_event() can return: nothing, a number, or the
\* pull request object the functions of github_api take.
PrDetails ==
    {None, Some(IntValue(0)), Some(IntValue(7)), Some(PullRequestObject(7))}

\* What load_prompt_template() can return: nothing, or a template string.
PromptTemplates == {None, Some(<<>>), Some(TemplateNamed), Some(TemplateUnknown)}

\* get_pr_diff(pr); web is the text of the response to requests.get, None
\* when the request fails. An argument without the attribute url raises
\* AttributeError inside the try, and the first except clause then names
\* `requests` before the function has imported it: UnboundLocalError leaves
\* the function.
get_pr_diff(pr, web) ==
    IF ~TruthyValue(pr) THEN Returned(None)
    ELSE IF pr.v.kind # "PullRequest" THEN Raised
    ELSE Returned(web)

\* The events of a timeline.
EvLabeled ==
    [event |-> "labeled", has_source |-> FALSE, has_issue |-> FALSE,
     number |-> 0, same_repo |-> FALSE]
EvXrefNoSource ==
    [event |-> "cross-referenced", has_source |-> FALSE, has_issue |-> FALSE,
     number |-> 0, same_repo |-> FALSE]
EvXref(n, same_repo) ==
    [event |-> "cross-referenced", has_source |-> TRUE, has_issue |-> TRUE,
     number |-> n, same_repo |-> same_repo]
TimelineEvents ==
    {EvLabeled, EvXrefNoSource, EvXref(7, TRUE), EvXref(3, FALSE), EvXref(3, TRUE)}

\* The most events a timeline holds.
MaxEvents == 1

\* pr.get_issue_events(): None when the fetch raises.
Timelines == {None} \cup {Some(t) : t \in SeqsUpTo(TimelineEvents, MaxEvents)}

\* The test of lines 371-375 on one event.
IsLinkingEvent(event, pr) ==
    /\ event.event = "cross-referenced" /\ event.has_source /\ event.has_issue
    /\ event.number # pr.v.number /\ event.same_repo

\* Bodies of the pull request, as words: a word that ends with one of the
\* closing keywords, blanks and colons, "#", digits.
\*   Closes #3
BodyCloses == <<"Closes", " ", "#", "3">>
\*   fixes: #0
BodyFixesZero == <<"fixes", ":", " ", "#", "0">>
\*   see #3
BodySee == <<"see", " ", "#", "3">>
\*   disclose#37
BodyDisclose == <<"disclose", "#", "3", "7">>
PrBodies ==
    {None, Some(<<>>), Some(BodyCloses), Some(BodyFixesZero), Some(BodySee),
     Some(BodyDisclose)}

\* Words that end with close, closes, closed, fix, fixes, fixed, resolve,
\* resolves or resolved, case ignored.
EndsWithKeyword(w) == w \in {"Closes", "fixes", "disclose"}

\* First index >= i of s that holds neither a blank nor a colon: where a
\* greedy [\s:]* from i stops.
RECURSIVE SeparatorsEnd(_, _)
SeparatorsEnd(s, i) ==
    IF i <= Len(s) /\ (IsSpace(s[i]) \/ s[i] = ":") THEN SeparatorsEnd(s, i + 1) ELSE i

\* The pattern (?:close|...|resolved)[\s:]*#(\d+) matches with its keyword
\* at the end of word i.
LinkMatchesAt(s, i) ==
    /\ i <= Len(s) /\ EndsWithKeyword(s[i])
    /\ HasAt(s, SeparatorsEnd(s, i + 1), <<"#">>)
    /\ SeparatorsEnd(s, i + 1) + 1 <= Len(s)
    /\ s[SeparatorsEnd(s, i + 1) + 1] \in Digits

\* re.search(pattern, pr_body, re.IGNORECASE): int(match.group(1)) of the
\* leftmost match, None when there is none.
LinkSearch(s) ==
    IF \E i \in 1..Len(s) : LinkMatchesAt(s, i)
    THEN LET i == CHOOSE k \in 1..Len(s) :
                      LinkMatchesAt(s, k) /\ \A j \in 1..(k - 1) : ~LinkMatchesAt(s, j)
             d == SeparatorsEnd(s, i + 1) + 1
         IN  Some(StrToInt(SubSeq(s, d, DigitsEnd(s, d) - 1)))
    ELSE None

\* find_linked_issue_number(pr) with the timeline and the body of the pull
\* request. An argument without the attributes of a pull request raises
\* AttributeError in the inner try; both handlers that catch it log pr.number
\* and raise it again, the last one out of the function.
find_linked_issue_number(pr, timeline, pr_body) ==
    IF ~TruthyValue(pr) THEN Returned(None)
    ELSE IF pr.v.kind # "PullRequest" THEN Raised
    ELSE IF ~timeline.some THEN Returned(None)
    ELSE IF \E i \in 1..Len(timeline.v) : IsLinkingEvent(timeline.v[i], pr)
    THEN LET i == CHOOSE k \in 1..Len(timeline.v) :
                      /\ IsLinkingEvent(timeline.v[k], pr)
                      /\ \A j \in 1..(k - 1) : ~IsLinkingEvent(timeline.v[j], pr)
         IN  Returned(Some(IntValue(timeline.v[i].number)))
    ELSE IF ~Truthy(pr_body) THEN Returned(None)
    ELSE IF LinkSearch(pr_body.v).some
    THEN Returned(Some(IntValue(LinkSearch(pr_body.v).v)))
    ELSE Returned(None)

\* get_issue_body(issue) with the body of an issue object (None for a null
\* body). An argument without the attribute body raises AttributeError in the
\* try; the handler logs issue.number and raises it again.
get_issue_body(issue, body) ==
    IF ~TruthyValue(issue) THEN Returned(None)
    ELSE IF issue.v.kind # "Issue" THEN Raised
    ELSE Returned(IF body.some THEN body ELSE Some(<<>>))

\* What the issue tracker does with create_comment.
Trackers == {"ok", "GithubException"}

\* post_pr_comment(pr_or_issue_number, comment_body): the value returned and
\* whether a comment was created.
post_pr_comment(pr_or_issue_number, comment_body, tracker) ==
    IF ~TruthyValue(pr_or_issue_number) THEN [ret |-> FALSE, created |-> FALSE]
    ELSE IF comment_body = <<>> THEN [ret |-> FALSE, created |-> FALSE]
    ELSE IF pr_or_issue_number.v.kind = "int" /\ tracker = "ok"
    THEN [ret |-> TRUE, created |-> TRUE]
    ELSE [ret |-> FALSE, created |-> FALSE]

\* What a run of main does, in order: the calls of the collaborators as they
\* return (or raise), the lines printed, the comments created.
Event(ev, name, value, form) == [ev |-> ev, name |-> name, value |-> value, form |-> form]
Call(fn, outcome) == Event("call", fn, <<outcome>>, "")

\* '\n' in value
HasNewline(value) ==
    \E i \in 1..Len(value) :
        value[i] \in {"\n", "Could not parse result from LLM response:\n"}

\* set_action_output(name, value): the lines it prints.
set_action_output(name, value) ==
    IF HasNewline(value)
    THEN <<Event("print", name, <<>>, "heredoc_open"),
           Event("print", name, value, "heredoc_value"),
           Event("print", name, <<>>, "heredoc_close")>>
    ELSE <<Event("print", name, value, "single")>>

\* The end of the process: sys.exit(code), or an exception nothing catches
\* (the interpreter prints the traceback and exits with 1).
sys_exit(code, trace) == [exit_code |-> code, uncaught |-> "", trace |-> trace]
Uncaught(exc, trace) == [exit_code |-> 1, uncaught |-> exc, trace |-> trace]

\* The text of a value in the outcome of a call.
Outcome(opt) == IF ~opt.some THEN "None" ELSE IF TruthyValue(opt) THEN "value" ELSE "falsy"
TextOutcome(opt) == IF ~opt.some THEN "None" ELSE IF Truthy(opt) THEN "value" ELSE "falsy"

\* Lines 43-47: the diff was not fetched.
DiffNotFetched_exit_0(trace) ==
    sys_exit(0, trace \o set_action_output("result", <<"FAIL">>)
                      \o set_action_output("explanation", <<"Error: Could not fetch PR diff.">>))

DiffNotFetched(trace) ==
    sys_exit(1, trace \o set_action_output("result", <<"FAIL">>)
                      \o set_action_output("explanation", <<"Error: Could not fetch PR diff.">>))

\* Lines 56-62: no linked issue; the comment of line 61 is not posted.
NoLinkedIssue_commented(pr_number, tracker, trace) ==
    LET comment_body ==
            <<"PR Intent Check Failed: Could not find a linked issue number in the PR description.">>
        posted == post_pr_comment(pr_number, comment_body, tracker)
    IN  sys_exit(1, trace
            \o set_action_output("result", <<"FAIL">>)
            \o set_action_output("explanation",
                   <<"Error: No linked issue found in PR body (e.g., 'Closes #123').">>)
            \o (IF posted.created THEN <<Event("comment", "", comment_body, "")>> ELSE <<>>)
            \o <<Call("post_pr_comment", IF posted.ret THEN "True" ELSE "False")>>)

NoLinkedIssue(pr_number, tracker, trace) ==
    sys_exit(1, trace
        \o set_action_output("result", <<"FAIL">>)
        \o set_action_output("explanation",
               <<"Error: No linked issue found in PR body (e.g., 'Closes #123').">>))

\* Lines 67-70: the body of the issue was not fetched.
IssueBodyNotFetched(issue_number, trace) ==
    sys_exit(1, trace
        \o set_action_output("result", <<"FAIL">>)
        \o set_action_output("explanation",
               <<"Error: Could not fetch body for linked issue #", "issue_number", ".">>))

\* Lines 78-81: the template was not loaded.
TemplateNotLoaded(trace) ==
    sys_exit(1, trace
        \o set_action_output("result", <<"FAIL">>)
        \o set_action_output("explanation", <<"Error: Could not load LLM prompt template.">>))

\* Lines 89-92: the evaluation failed.
EvaluationFailed(explanation, trace) ==
    sys_exit(1, trace
        \o set_action_output("result", <<"FAIL">>)
        \o set_action_output("explanation",
               IF Truthy(explanation) THEN explanation.v
               ELSE <<"Error: LLM evaluation failed unexpectedly.">>))

\* Lines 94-109: outputs, comment, exit code.
Conclude(pr_number, result, explanation, tracker, trace) ==
    LET comment_header == <<"**PR Intent Check Result: ", result, "**\n\n">>
        posted == post_pr_comment(pr_number, comment_header \o explanation, tracker)
    IN  sys_exit(IF result = "PASS" THEN 0 ELSE 1,
                 trace
                     \o set_action_output("result", <<result>>)
                     \o set_action_output("explanation", explanation)
                     \o (IF posted.created
                         THEN <<Event("comment", "", comment_header \o explanation, "")>>
                         ELSE <<>>)
                     \o <<Call("post_pr_comment", IF posted.ret THEN "True" ELSE "False")>>)

\* Lines 83-109 of main.
main_evaluate(w, env, pr_number, code_diff, issue_body, prompt_template, trace) ==
    LET ret == evaluate_intent(issue_body, code_diff, prompt_template, env, w.api)
        called == trace \o <<Call("evaluate_intent", IF ret.result.some THEN ret.result.v ELSE "None")>>
    IN  IF ~ret.result.some THEN EvaluationFailed(ret.explanation, called)
        ELSE Conclude(pr_number, ret.result.v, ret.explanation.v, w.tracker, called)

\* Lines 65-81 of main.
main_issue_body(w, env, pr_number, code_diff, issue_number, trace) ==
    LET issue_body == get_issue_body(issue_number, w.issue_body)
    IN  IF issue_body.raised
        THEN Uncaught("AttributeError", trace \o <<Call("get_issue_body", "raised")>>)
        ELSE LET fetched == trace \o <<Call("get_issue_body", TextOutcome(issue_body.v))>>
                 prompt_template == w.template
                 loaded == fetched \o <<Call("load_prompt_template", TextOutcome(prompt_template))>>
             IN  IF ~issue_body.v.some THEN IssueBodyNotFetched(issue_number, fetched)
                 ELSE IF ~Truthy(prompt_template) THEN TemplateNotLoaded(loaded)
                 ELSE main_evaluate(w, env, pr_number, code_diff, issue_body.v,
                                    prompt_template, loaded)

\* main() in the world w (what each collaborator finds) and with the module
\* globals env of llm_eval.
main(w, env) ==
    LET pr_number == w.event
        started == <<Call("get_pr_details_from_event", Outcome(pr_number))>>
    IN  IF ~TruthyValue(pr_number) THEN sys_exit(1, started)
        ELSE LET code_diff == get_pr_diff(pr_number, w.web)
             IN  IF code_diff.raised
                 THEN Uncaught("UnboundLocalError", started \o <<Call("get_pr_diff", "raised")>>)
                 ELSE LET fetched == started \o <<Call("get_pr_diff", TextOutcome(code_diff.v))>>
                          issue_number ==
                              find_linked_issue_number(pr_number, w.timeline, w.pr_body)
                      IN  IF ~code_diff.v.some THEN DiffNotFetched(fetched)
                          ELSE IF issue_number.raised
                          THEN Uncaught("AttributeError",
                                        fetched \o <<Call("find_linked_issue_number", "raised")>>)
                          ELSE LET found == fetched \o <<Call("find_linked_issue_number",
                                                              Outcome(issue_number.v))>>
                               IN  IF ~TruthyValue(issue_number.v)
                                   THEN NoLinkedIssue(pr_number, w.tracker, found)
                                   ELSE main_issue_body(w, env, pr_number, code_diff.v,
                                                        issue_number.v, found)

\* The worlds of a run: what the event gives, the response to the request of
\* the diff, the timeline and the body of the pull request, the body of an
\* issue, the template, the completion service, the issue tracker.
MainApis ==
    {CreateRaises("OpenAIError"),
     Completion(<<Some(<<"Result:", " ", "PASS">>)>>),
     Completion(<<Some(<<"ok", " ", "result:", "Fail", " ">>)>>),
     Completion(<<Some(<<"PASS">>)>>)}

Worlds ==
    [event : PrDetails, web : Texts, timeline : Timelines, pr_body : PrBodies,
     issue_body : {None, Some(<<"d">>)}, template : PromptTemplates, api : MainApis,
     tracker : Trackers]

\* The process is started: nothing has run.
MainStart ==
    /\ main_world \in Worlds
    /\ main_ret = None

\* A process that does not run main.
MainUnset ==
    /\ main_world = None
    /\ main_ret = None

\* The three globals of llm_eval in a process that runs main: all set, or
\* none.
EvalConfigured ==
    /\ azure_openai \in {[endpoint |-> Some(<<"v">>), key |-> Some(<<"v">>),
                          deployment |-> Some(<<"v">>)],
                         [endpoint |-> None, key |-> None, deployment |-> None]}
    /\ eval_args = None
    /\ eval_api = None
    /\ eval_ret = None

\* python main.py: main runs to its exit.
Main ==
    /\ main_ret = None
    /\ main_ret' = Some(main(main_world, azure_openai))
    /\ UNCHANGED main_world
    /\ UNCHANGED <<diffVars, fileVars, runVars, evalVars, hash_seed>>

NextMain == Main

-----------------------------------------------------------------------------
(* Specifications *)

\* The process starts with one of the hash seeds.
ProcessStart == hash_seed \in HashSeeds

\* The two diff parsers over every diff text of at most MaxLines lines.
InitDiff == ProcessStart /\ DiffStart /\ FileStart /\ RunStart /\ EvalUnset /\ MainUnset
SpecDiff == InitDiff /\ [][NextDiff]_vars

\* Both extractors over every source file of at most MaxTop statements and
\* every run of changed lines.
InitFile == ProcessStart /\ DiffStart /\ FileStart /\ RunStart /\ EvalUnset /\ MainUnset
SpecFile == InitFile /\ [][NextFile]_vars

\* Runs of both extractors over every change set of at most two files and
\* every content of these files, twice on the same input.
InitRun == ProcessStart /\ DiffStart /\ FileStart /\ RunStart /\ EvalUnset /\ MainUnset
SpecRun == InitRun /\ [][NextRun]_vars

\* Calls of evaluate_intent under every setting of the three environment
\* variables, with every argument and every behaviour of the client.
InitEval == ProcessStart /\ DiffStart /\ FileStart /\ RunStart /\ EvalStart /\ MainUnset
SpecEval == InitEval /\ [][NextEval]_vars

\* Runs of main in every world, with the credentials of the completion
\* service set or not.
InitMain == ProcessStart /\ DiffStart /\ FileStart /\ RunStart /\ EvalConfigured /\ MainStart
SpecMain == InitMain /\ [][NextMain]_vars

-----------------------------------------------------------------------------
(* Claims about one source file *)

\* The definitions the CodeAnalyzer catalogued: the nodes of function_defs
\* and of class_defs.
CataloguedDefinitions ==
    {code_analyzer.function_defs[i].v : i \in 1..Len(code_analyzer.function_defs)}
        \cup {code_analyzer.class_defs[i].v : i \in 1..Len(code_analyzer.class_defs)}

\* The nodes _find_relevant_nodes returned.
RelevantNodes == {relevant[i].node : i \in 1..Len(relevant)}

\* C3: every catalogued function or class whose line range holds a changed
\* line is in the result of _find_relevant_nodes, whatever other definitions
\* (one of the same name included) the file holds.
C3_ChangedDefinitionIsRelevant ==
    stage \in {"localized", "assembled"} =>
        \A d \in CataloguedDefinitions : AnyLineIn(lines, d) => d \in RelevantNodes

\* A FunctionDef directly in the body of class node d holds a changed line.
MethodNodeChanged(d) ==
    \E i \in 1..Len(d.body) : d.body[i].kind = "FunctionDef" /\ AnyLineIn(lines, d.body[i])

\* A method catalogued for the class holds a changed line.
MethodInfoChanged(class_info) ==
    \E i \in 1..Len(class_info.methods) : IntersectsRange(lines, class_info.methods[i].v)

\* get_contextual_code localizes a class by an entry ("Method", info, class name).
ClassHasChangedBlock(class_info) ==
    \E i \in 1..Len(changed) :
        /\ changed[i].parent_class_name = Some(class_info.name)
        /\ \E m \in 1..Len(class_info.methods) :
               class_info.methods[m].v = changed[i].block_info

\* C4: a class is localized exactly when a changed line lies in its own range
\* or one of its methods is localized, in _find_relevant_nodes and in the
\* localization loop of get_contextual_code alike.
C4_ClassLocalizedIffChanged ==
    stage \in {"localized", "assembled"} =>
        /\ \A i \in 1..Len(code_analyzer.class_defs) :
              LET d == code_analyzer.class_defs[i].v
              IN  d \in RelevantNodes <=> (AnyLineIn(lines, d) \/ MethodNodeChanged(d))
        /\ \A i \in 1..Len(ast_parser.classes) :
              LET c == ast_parser.classes[i].v
              IN  ClassHasChangedBlock(c) <=> (IntersectsRange(lines, c) \/ MethodInfoChanged(c))

\* Part j lies in the section that the part at i opens: no part of the tag of
\* parts[i] comes after i up to j.
InSectionOf(parts, i, j) ==
    i < j /\ \A k \in (i + 1)..j : parts[k].tag # parts[i].tag

\* The part is the signature of a local definition given for a call.
IsLocalSignature(part) ==
    \/ part.tag = "signature"
    \/ part.tag = "call_context" /\ part.kind \in {"function", "method"}

\* No signature among the calls of the section of a relevant definition is
\* that definition's own.
NoOwnSignature(parts, opening) ==
    \A i, j \in 1..Len(parts) :
        (parts[i].tag = opening /\ InSectionOf(parts, i, j) /\ IsLocalSignature(parts[j]))
            => parts[j].of # parts[i].of

\* C5: the resolved calls given for a relevant definition never hold that
\* definition's own signature, recursion included, in get_contextual_code and
\* in _extract_node_context alike.
C5_NoOwnSignatureAmongCalls ==
    stage = "assembled" =>
        /\ NoOwnSignature(ctx_file_parts, "body_source")
        /\ NoOwnSignature(gen_file_parts, "source_code")

\* Every import statement is listed at most once and every local definition's
\* signature is given at most once among the parts.
EmittedOnce(parts) ==
    \A i, j \in 1..Len(parts) :
        i < j =>
            /\ ~(IsLocalSignature(parts[i]) /\ IsLocalSignature(parts[j])
                 /\ parts[i].of = parts[j].of)
            /\ ~(parts[i].tag = "import" /\ parts[j].tag = "import"
                 /\ parts[i].text = parts[j].text)

\* C6: in the context of one file every import statement and every local
\* signature is emitted at most once, however many relevant definitions and
\* call names lead to it.
C6_ImportsAndSignaturesOnce ==
    stage = "assembled" => EmittedOnce(ctx_file_parts) /\ EmittedOnce(gen_file_parts)

-----------------------------------------------------------------------------
(* Claims about a run over the files of a change set *)

\* C7: two runs of generate_context_code and of get_contextual_code on the
\* same diff and the same file contents return the same text, sections,
\* signatures and imports in the same order, whatever the hash seeds of the
\* two processes.
C7_SameInputSameOutput ==
    (run_no = "second" /\ pc = "done") =>
        gen_out = prev_gen_out /\ ctx_out = prev_ctx_out

\* Two runs with different hash seeds have returned, the first extractor has
\* listed two calls of one definition and the second two imports of one block.
C7_Witness ==
    /\ run_no = "second" /\ pc = "done"
    /\ prev_hash_seed # hash_seed
    /\ \E i \in 1..(Len(gen_out) - 1) :
           gen_out[i].tag = "call_context" /\ gen_out[i + 1].tag = "call_context"
    /\ \E i \in 1..(Len(ctx_out) - 1) :
           ctx_out[i].tag = "import" /\ ctx_out[i + 1].tag = "import"

\* The parts hold the one-line diagnostic of the file.
HasPlaceholder(parts, f) ==
    \E i \in 1..Len(parts) :
        parts[i].tag \in {"could_not_analyze", "skipped_file"} /\ parts[i].file = f

\* The content of the file could not be fetched or could not be parsed.
NotFetchedOrNotParsed(content) ==
    content.kind \in {"fetch_failed", "directory", "syntax_error"}

\* The module body of a file that was fetched and parsed.
ParsedBody(content) == IF content.kind = "ok" THEN content.body ELSE <<>>

\* C9: in the returned text a file has the one-line diagnostic exactly when
\* its content could not be fetched or parsed, and a file that was fetched and
\* parsed but has no relevant definition contributes no text.
C9_PlaceholderIffNotAnalysable ==
    pc = "done" =>
        /\ \A k \in 1..Len(files) :
              LET f == files[k].k
              IN  /\ HasPlaceholder(gen_out, f) <=> NotFetchedOrNotParsed(repo[f])
                  /\ (/\ ~NotFetchedOrNotParsed(repo[f])
                      /\ find_relevant_nodes(CodeAnalyzer(ParsedBody(repo[f])), files[k].v) = <<>>)
                         => \A i \in 1..Len(gen_out) : gen_out[i].file # f
        /\ \A k \in 1..Len(CtxFiles) :
              LET f == CtxFiles[k].k
              IN  /\ HasPlaceholder(ctx_out, f) <=> NotFetchedOrNotParsed(repo[f])
                  /\ (/\ ~NotFetchedOrNotParsed(repo[f])
                      /\ changed_blocks_in_file(AstParser(ParsedBody(repo[f])), CtxFiles[k].v) = <<>>)
                         => \A i \in 1..Len(ctx_out) : ctx_out[i].file # f

\* part follows part in whole as part does in sub.
IsInfix(sub, whole) ==
    \E off \in 0..(Len(whole) - Len(sub)) : \A i \in 1..Len(sub) : whole[off + i] = sub[i]

\* A file of the change set cannot be fetched or is not valid Python.
SomeFileFails ==
    \E k \in 1..Len(files) : repo[files[k].k].kind \in {"fetch_failed", "syntax_error"}

\* C10: a fetch failure or a syntax error for one file never aborts the
\* extraction: no exception leaves either extractor, and the section of every
\* other file of the change set is in the returned text.
C10_FileFailureDoesNotAbort ==
    (pc = "done" /\ SomeFileFails) =>
        /\ ~gen_raised /\ ~ctx_raised
        /\ \A k \in 1..Len(files) :
              LET f == files[k].k
              IN  repo[f].kind = "ok" =>
                      IsInfix(StripParts(GCC_FileParts(f, Some(CodeAnalyzer(repo[f].body)),
                                                       files[k].v)),
                              gen_out)
        /\ \A k \in 1..Len(CtxFiles) :
              LET f == CtxFiles[k].k
              IN  repo[f].kind = "ok" =>
                      IsInfix(GCX_FileParts(f, Some(AstParser(repo[f].body)), CtxFiles[k].v),
                              ctx_out)

\* The first file of the change set has a syntax error, the second was
\* analysed, and both extractors have returned its section.
C10_Witness ==
    /\ pc = "done"
    /\ Len(files) = 2
    /\ repo[files[1].k].kind = "syntax_error"
    /\ repo[files[2].k].kind = "ok"
    /\ HasPlaceholder(gen_out, files[1].k) /\ HasPlaceholder(ctx_out, files[1].k)
    /\ \E i \in 1..Len(gen_out) :
           gen_out[i].tag = "full_definition" /\ gen_out[i].file = files[2].k
    /\ \E i \in 1..Len(ctx_out) :
           ctx_out[i].tag = "context_from_file" /\ ctx_out[i].file = files[2].k

-----------------------------------------------------------------------------
(* Further claims on the diff parsers *)

\* The line numbers of all the sets of a mapping.
AllLineNumbers(d) == UNION {d[i].v : i \in 1..Len(d)}

\* C11: every line number in every set of the mapping returned by parse_diff
\* and by parse_diff_hunks is at least 1, for every diff text.
C11_LineNumbersPositive ==
    phase = "returned" =>
        \A n \in AllLineNumbers(pd_ret) \cup AllLineNumbers(ph_ret) : n >= 1

\* The locals of the two parsers after the loop has read `text`.
RECURSIVE PdScan(_), PhScan(_)
PdScan(text) ==
    IF text = <<>> THEN PdInit
    ELSE PdStep(PdScan(SubSeq(text, 1, Len(text) - 1)), text[Len(text)])
PhScan(text) ==
    IF text = <<>> THEN PhInit
    ELSE PhStep(PhScan(SubSeq(text, 1, Len(text) - 1)), text[Len(text)])

\* Line f is the last `+++ b/<path>` header read so far and its path does not
\* end in .py.
InOtherFileSection(f) ==
    /\ f \in 1..Len(diff)
    /\ IsNewFileHeader(diff[f]) /\ ~EndsWith(HeaderPath(diff[f]), PyExt)
    /\ \A j \in (f + 1)..Len(diff) : ~IsNewFileHeader(diff[j])

\* C12: the mapping of parse_diff and of parse_diff_hunks never has a path
\* that does not end in .py, and the lines after the header of such a file,
\* up to the next `+++ b/` header, are neither recorded nor counted for any
\* file.
C12_OnlyPythonFiles ==
    /\ \A path \in DictKeys(pd_ret) \cup DictKeys(ph_ret) : EndsWith(path, PyExt)
    /\ \A f \in 1..Len(diff) :
           InOtherFileSection(f) =>
               /\ pd.changed_lines = PdScan(SubSeq(diff, 1, f)).changed_lines
               /\ pd.new_file_line_num = PdScan(SubSeq(diff, 1, f)).new_file_line_num
               /\ ~ph.raised =>
                      /\ ph.changed_lines = PhScan(SubSeq(diff, 1, f)).changed_lines
                      /\ ph.current_line_in_hunk
                             = PhScan(SubSeq(diff, 1, f)).current_line_in_hunk

-----------------------------------------------------------------------------
(* Claims on the resolution of calls *)

\* The local definitions the AstParser catalogued: the standalone functions
\* and the methods of the classes.
LocalDefinitions ==
    {ast_parser.functions[i].v : i \in 1..Len(ast_parser.functions)}
        \cup UNION {{ast_parser.classes[i].v.methods[m].v :
                         m \in 1..Len(ast_parser.classes[i].v.methods)} :
                    i \in 1..Len(ast_parser.classes)}

\* The local definitions other than the block whose name is the call name or
\* its last dotted segment.
CallTargets(call, block) ==
    {d \in LocalDefinitions :
        d.name \in {call, SplitLast(call)} /\ d # block.block_info}

\* get_contextual_code has emitted the signature of definition d.
SignatureEmitted(d) ==
    \E i \in 1..Len(ctx_file_parts) :
        /\ ctx_file_parts[i].tag = "signature"
        /\ ctx_file_parts[i].of = d.start_line
        /\ ctx_file_parts[i].name = d.name

\* C13: in get_contextual_code, when a call of a relevant definition B names
\* (by its name or its last dotted segment) a local function or method that
\* is another definition than B, one of the same bare name as B included, the
\* signature of such a definition is in the context of the file.
C13_LocalCallSignatureEmitted ==
    stage = "assembled" =>
        \A b \in 1..Len(changed) :
            \A c \in 1..Len(changed[b].block_info.calls) :
                LET targets == CallTargets(changed[b].block_info.calls[c], changed[b])
                IN  targets # {} => \E d \in targets : SignatureEmitted(d)

\* The import statements at module scope.
ModuleImports ==
    {tree[i] : i \in {j \in 1..Len(tree) : tree[j].kind \in {"Import", "ImportFrom"}}}

\* The names a call may use for what an import statement brings in: for each
\* alias its asname and the first segment of its name, and the first segment
\* of the module of a from-import.
ImportNames(node) ==
    {node.names[i].asname : i \in {j \in 1..Len(node.names) : node.names[j].asname # <<>>}}
        \cup {SplitFirst(node.names[i].name) : i \in 1..Len(node.names)}
        \cup (IF node.kind = "ImportFrom" THEN {SplitFirst(node.module)} ELSE {})

\* The texts the two visitors keep for an import statement.
ImportTexts(node) ==
    {UnparseImport(node)}
        \cup (IF node.kind = "Import"
              THEN {KwImport \o node.names[i].name : i \in 1..Len(node.names)}
              ELSE {KwFrom \o node.module \o KwSpaceImportSpace
                    \o Join([i \in 1..Len(node.names) |-> node.names[i].name], CommaSpace)})

\* The first dotted segment of the call is a name of an import statement of
\* that text.
CallUsesImport(call, text) ==
    \E node \in ModuleImports :
        text \in ImportTexts(node) /\ SplitFirst(call) \in ImportNames(node)

\* The block whose section of ctx_file_parts holds part j.
BlockOfPart(j) ==
    changed[Cardinality({i \in 1..j : ctx_file_parts[i].tag = "context_for_changed"})]

\* C14: an import statement is given as required by a call only if the first
\* dotted segment of the call is exactly one of the names of that statement,
\* never because the text of the statement holds the segment inside a longer
\* name; in get_contextual_code and in _extract_node_context.
C14_ImportOnlyForBoundName ==
    stage = "assembled" =>
        /\ \A j \in 1..Len(gen_file_parts) :
               (gen_file_parts[j].tag = "call_context" /\ gen_file_parts[j].kind = "import")
                   => CallUsesImport(gen_file_parts[j].call, gen_file_parts[j].text)
        /\ \A j \in 1..Len(ctx_file_parts) :
               ctx_file_parts[j].tag = "import"
                   => \E c \in 1..Len(BlockOfPart(j).block_info.calls) :
                          CallUsesImport(BlockOfPart(j).block_info.calls[c],
                                         ctx_file_parts[j].text)

\* The names an import statement binds at module scope: for each alias its
\* asname, or without one the first segment of its name.
BoundNames(node) ==
    {IF node.names[i].asname # <<>> THEN node.names[i].asname
     ELSE SplitFirst(node.names[i].name) : i \in 1..Len(node.names)}

\* The call matches no local function or method, by its name or by its last
\* dotted segment.
NoLocalMatch(call) ==
    \A d \in LocalDefinitions : d.name \notin {call, SplitLast(call)}

\* The parts hold a text of the import statement.
ImportInParts(node, parts) ==
    \E i \in 1..Len(parts) :
        /\ \/ parts[i].tag = "import"
           \/ parts[i].tag = "call_context" /\ parts[i].kind = "import"
        /\ parts[i].text \in ImportTexts(node)

\* The calls of the functions and methods that hold a changed line.
LocalizedCalls ==
    UNION {Range(changed[b].block_info.calls) : b \in 1..Len(changed)}

\* The calls of the relevant functions and classes of _find_relevant_nodes.
RelevantCalls ==
    UNION {Range(CallsMade(relevant[i].name, relevant[i].node, code_analyzer)) :
               i \in 1..Len(relevant)}

\* C15: when a localized function holds a call that matches no local
\* definition and whose first dotted segment is a name bound by an import
\* statement at module scope (a module, one of several imported names, an
\* alias), the context of the file holds the text of that import statement.
C15_BoundImportEmitted ==
    stage = "assembled" =>
        \A node \in ModuleImports :
            /\ \A call \in LocalizedCalls :
                   (NoLocalMatch(call) /\ SplitFirst(call) \in BoundNames(node))
                       => ImportInParts(node, ctx_file_parts)
            /\ \A call \in RelevantCalls :
                   (NoLocalMatch(call) /\ SplitFirst(call) \in BoundNames(node))
                       => ImportInParts(node, gen_file_parts)

\* The call matches no local function or method and its first dotted segment
\* is no name of a module-scope import statement.
Unmatched(call) ==
    /\ NoLocalMatch(call)
    /\ \A node \in ModuleImports : SplitFirst(call) \notin ImportNames(node)

\* The parts of ctx_file_parts that belong to the b-th changed block.
SectionOfBlock(b) ==
    {j \in 1..Len(ctx_file_parts) :
        Cardinality({i \in 1..j : ctx_file_parts[i].tag = "context_for_changed"}) = b}

\* C16: a call that matches neither a local function or method nor an import
\* binding contributes nothing: _extract_node_context emits no line for it, and
\* a changed block of get_contextual_code whose calls are all of that sort
\* carries its header and its full definition and nothing else.
C16_UnresolvedCallContributesNothing ==
    stage = "assembled" =>
        /\ \A j \in 1..Len(gen_file_parts) :
               gen_file_parts[j].tag = "call_context" => ~Unmatched(gen_file_parts[j].call)
        /\ \A b \in 1..Len(changed) :
               (\A call \in Range(changed[b].block_info.calls) : Unmatched(call))
                   => \A j \in SectionOfBlock(b) :
                          ctx_file_parts[j].tag \in
                              {"context_for_changed", "full_definition", "body_source"}

\* Claims on the localization of classes and on the list of localized
\* definitions.

\* A changed line lies in the range of class node d and in no FunctionDef
\* directly in its body, and no such FunctionDef holds a changed line.
OnlyClassBodyChanged(d) ==
    /\ \E n \in lines :
           /\ d.lineno <= n /\ n <= d.end_lineno
           /\ \A i \in 1..Len(d.body) :
                  d.body[i].kind = "FunctionDef"
                      => ~(d.body[i].lineno <= n /\ n <= d.body[i].end_lineno)
    /\ ~MethodNodeChanged(d)

\* The same for a class catalogued by AstParser.
OnlyClassInfoChanged(c) ==
    /\ \E n \in lines :
           /\ c.start_line <= n /\ n <= c.end_line
           /\ \A m \in 1..Len(c.methods) :
                  ~(c.methods[m].v.start_line <= n /\ n <= c.methods[m].v.end_line)
    /\ ~MethodInfoChanged(c)

\* C17: when a changed line lies in a class but outside every method of it and
\* no method of the class holds a changed line, the class is localized through
\* its own range and its context is in the bundle, in the pipeline of
\* _find_relevant_nodes and in get_contextual_code.
C17_ClassAttributeChangeLocalizes ==
    stage = "assembled" =>
        /\ \A i \in 1..Len(code_analyzer.class_defs) :
              LET d == code_analyzer.class_defs[i].v
              IN  OnlyClassBodyChanged(d) =>
                      /\ d \in RelevantNodes
                      /\ \E j \in 1..Len(gen_file_parts) :
                             /\ gen_file_parts[j].tag = "source_code"
                             /\ gen_file_parts[j].of = d.lineno
        /\ \A i \in 1..Len(ast_parser.classes) :
              LET c == ast_parser.classes[i].v
              IN  OnlyClassInfoChanged(c) =>
                      \E b \in 1..Len(changed) :
                          /\ changed[b].block_info.start_line = c.start_line
                          /\ \E j \in SectionOfBlock(b) : ctx_file_parts[j].tag = "body_source"

\* C18: when several local definitions share the bare name a call of a changed
\* block resolves to, the signature get_contextual_code emits for the call is
\* that of the one that comes first in the source file.
C18_FirstInDocumentOrder ==
    stage = "assembled" =>
        \A b \in 1..Len(changed) : \A j \in SectionOfBlock(b) :
            LET targets == CallTargets(ctx_file_parts[j].call, changed[b])
            IN  (ctx_file_parts[j].tag = "signature" /\ Cardinality(targets) > 1)
                    => \A d \in targets : ctx_file_parts[j].of <= d.start_line

\* No definition is twice in the result of _find_relevant_nodes, nor in
\* changed_blocks_in_file.
NoDefinitionTwice ==
    /\ \A i, j \in 1..Len(relevant) : i < j => relevant[i].node # relevant[j].node
    /\ \A i, j \in 1..Len(changed) : i < j => changed[i].block_info # changed[j].block_info

\* Both lists are in the order in which the definitions appear in the file.
InSourceOrder ==
    /\ \A i, j \in 1..Len(relevant) :
           i < j => relevant[i].node.lineno <= relevant[j].node.lineno
    /\ \A i, j \in 1..Len(changed) :
           i < j => changed[i].block_info.start_line <= changed[j].block_info.start_line

\* C20: the list of localized definitions of a file holds no definition twice
\* and is in the order in which the definitions appear in the source file, for
\* _find_relevant_nodes and for changed_blocks_in_file of get_contextual_code.
C20_LocalizedOnceInSourceOrder ==
    stage \in {"localized", "assembled"} => (NoDefinitionTwice /\ InSourceOrder)

\* Claims on evaluate_intent

\* The return statements of evaluate_intent on a failure: credentials
\* missing, template string missing, template formatting error, API error,
\* unexpected exception.
FailureReturns ==
    {"credentials_missing", "template_missing", "format_key_error", "format_error",
     "openai_error", "unexpected_error"}

\* C19: on every failure path of evaluate_intent the pair returned is
\* (None, None).
C19_FailureReturnsNonePair ==
    (eval_ret.some /\ eval_ret.v.from \in FailureReturns)
        => (eval_ret.v.result = None /\ eval_ret.v.explanation = None)

\* Further claims on the catalog of a file

\* The methods catalogued for class info c.
MethodsOf(c) == {c.methods[m].v : m \in 1..Len(c.methods)}

\* The classes AstParser catalogued.
CataloguedClasses == {ast_parser.classes[i].v : i \in 1..Len(ast_parser.classes)}

\* C21: in the catalog of AstParser every definition has start_line <=
\* end_line and the range of every method of a class lies within the range of
\* that class, with nested classes and classes of the same name too.
C21_MethodRangeWithinClass ==
    stage # "start" =>
        /\ \A d \in LocalDefinitions \cup CataloguedClasses : d.start_line <= d.end_line
        /\ \A c \in CataloguedClasses : \A m \in MethodsOf(c) :
               c.start_line <= m.start_line /\ m.end_line <= c.end_line

\* A file with a class nested in a class and two classes of one name, with a
\* method catalogued that lies in the rest of its class.
C21_Witness ==
    /\ stage = "analyzed"
    /\ Len(tree) = 2 /\ tree[1].kind = "ClassDef" /\ tree[2].kind = "ClassDef"
    /\ tree[1].name = tree[2].name
    /\ \E i \in 1..2 : \E b \in 1..Len(tree[i].body) : tree[i].body[b].kind = "ClassDef"
    /\ \E c \in CataloguedClasses : \E m \in MethodsOf(c) : c.start_line < m.start_line

\* Further claims on the reading of file sections by the diff parsers

\* A header line of a file section: `diff --git ...`, `--- ...` or `+++ ...`.
IsSectionHeaderLine(line) ==
    \/ StartsWith(line, <<"d", "i", "f", "f", " ", "-", "-", "g", "i", "t">>)
    \/ StartsWith(line, <<"-", "-", "-">>)
    \/ StartsWith(line, <<"+", "+", "+">>)

\* Line i of the text lies in the section of `path` itself: after a
\* `+++ b/<path>` header and before the header lines of the next file.
InOwnSection(path, i) ==
    \E f \in 1..(i - 1) :
        /\ IsNewFileHeader(diff[f]) /\ HeaderPath(diff[f]) = path
        /\ \A j \in (f + 1)..i : ~IsSectionHeaderLine(diff[j])

\* Line i comes after the section of `path`: a header line of another section
\* stands between the last `+++ b/<path>` header and i, i included.
InLaterSection(path, i) ==
    \E f \in 1..(i - 1) :
        /\ IsNewFileHeader(diff[f]) /\ HeaderPath(diff[f]) = path
        /\ \A j \in (f + 1)..i : ~(IsNewFileHeader(diff[j]) /\ HeaderPath(diff[j]) = path)
        /\ \E j \in (f + 1)..i : IsSectionHeaderLine(diff[j])

\* The set a mapping holds for path (empty when path is no key).
LinesFor(d, path) == IF DictHas(d, path) THEN DictGet(d, path) ELSE {}

\* C22: the last line read records a number for path P only when it is an
\* added line (no `+++` line) in P's own section; a line that belongs to a
\* later section neither adds a number to P's set nor, while P is still the
\* parser's current file, moves the line counter.  For both parsers.
C22_OnlyOwnAddedLinesRecorded ==
    diff # <<>> =>
        LET n == Len(diff)
            pd_before == PdScan(SubSeq(diff, 1, n - 1))
            ph_before == PhScan(SubSeq(diff, 1, n - 1))
        IN  \A path \in HeaderPaths :
                /\ LinesFor(pd.changed_lines, path) # LinesFor(pd_before.changed_lines, path)
                       => (IsAddedLine(diff[n]) /\ InOwnSection(path, n))
                /\ (InLaterSection(path, n) /\ pd.current_file = Some(path))
                       => pd.new_file_line_num = pd_before.new_file_line_num
                /\ ~ph.raised =>
                       /\ LinesFor(ph.changed_lines, path) # LinesFor(ph_before.changed_lines, path)
                              => (IsAddedLine(diff[n]) /\ InOwnSection(path, n))
                       /\ (InLaterSection(path, n) /\ ph.current_filename = Some(path)
                               /\ ~hunk_header_re(diff[n]).ok)
                              => ph.current_line_in_hunk = ph_before.current_line_in_hunk

\* Line h starts with `@@` and is no hunk header for either parser.
IsMalformedHunkHeader(h) ==
    /\ StartsWith(diff[h], <<"@", "@">>)
    /\ ~hunk_header_regex(diff[h]).ok /\ ~hunk_header_re(diff[h]).ok

\* C23: after a line that starts with `@@` and does not match the hunk-header
\* pattern, no further line number is recorded for the file that was current
\* until the next `+++ b/<path>` header is read; in parse_diff and in
\* parse_diff_hunks.
C23_MalformedHunkHeaderDropsFile ==
    \A h \in 1..Len(diff) :
        (/\ IsMalformedHunkHeader(h)
         /\ \A j \in (h + 1)..Len(diff) : ~IsNewFileHeader(diff[j]))
            => \A path \in HeaderPaths :
                   /\ LinesFor(pd.changed_lines, path)
                          = LinesFor(PdScan(SubSeq(diff, 1, h)).changed_lines, path)
                   /\ ~ph.raised =>
                          LinesFor(ph.changed_lines, path)
                              = LinesFor(PhScan(SubSeq(diff, 1, h)).changed_lines, path)

\* The class statements of a body, those nested in classes included.
RECURSIVE ClassNodes(_)
ClassNodes(nodes) ==
    IF nodes = <<>> THEN {}
    ELSE (IF Head(nodes).kind = "ClassDef"
          THEN {Head(nodes)} \cup ClassNodes(Head(nodes).body) ELSE {})
         \cup ClassNodes(Tail(nodes))

\* The functions declared directly in the body of class node c.
DirectFunctions(c) == {c.body[i] : i \in {j \in 1..Len(c.body) : c.body[j].kind = "FunctionDef"}}

\* The functions declared outside any class.
TopLevelFunctions == {tree[i] : i \in {j \in 1..Len(tree) : tree[j].kind = "FunctionDef"}}

\* Function node f is catalogued as a standalone function, by either analyzer.
StandaloneInCodeAnalyzer(f) ==
    \E i \in 1..Len(code_analyzer.function_defs) : code_analyzer.function_defs[i].v = f
StandaloneInAstParser(f) ==
    \E i \in 1..Len(ast_parser.functions) : ast_parser.functions[i].v = FunctionInfo(f)

\* Function node f is catalogued as a method of a class named cname.
MethodInCodeAnalyzer(f, cname) ==
    /\ DictHas(code_analyzer.method_calls, cname)
    /\ DictHas(DictGet(code_analyzer.method_calls, cname), f.name)
MethodInAstParser(f, cname) ==
    \E c \in CataloguedClasses : c.name = cname /\ FunctionInfo(f) \in MethodsOf(c)

\* C24: after both traversals, a function declared directly in the body of a
\* class is never catalogued as a standalone function and, when its class is
\* the one catalogued under the class name, it is a method of it, whatever
\* comes before it in the class body; a function declared outside any class
\* is never catalogued as a method.
C24_MethodsAndFunctionsKeptApart ==
    stage # "start" =>
        /\ \A c \in ClassNodes(tree) : \A f \in DirectFunctions(c) :
               /\ ~StandaloneInCodeAnalyzer(f)
               /\ ~StandaloneInAstParser(f)
               /\ DictGet(code_analyzer.class_defs, c.name) = c
                      => MethodInCodeAnalyzer(f, c.name)
               /\ (\E k \in CataloguedClasses : k.name = c.name /\ k.start_line = c.lineno)
                      => MethodInAstParser(f, c.name)
        /\ \A f \in TopLevelFunctions : \A c \in ClassNodes(tree) :
               /\ MethodInAstParser(f, c.name) => f \in DirectFunctions(c)
               /\ MethodInCodeAnalyzer(f, c.name)
                      => \E g \in DirectFunctions(c) : g.name = f.name

\* Claims on the order of resolution of calls

\* The relevant node whose section of gen_file_parts holds part j: the node of
\* the last "source_code" part up to j.
GenSectionNode(j) ==
    LET opened == {i \in 1..j : gen_file_parts[i].tag = "source_code"}
        last == CHOOSE i \in opened : \A k \in opened : k <= i
    IN  CHOOSE node \in RelevantNodes : node.lineno = gen_file_parts[last].of

\* The local functions and methods, outside the lines of node, that the call
\* names by its name or its last dotted segment.
LocalMatchesOutside(call, node) ==
    {d \in LocalDefinitions :
        /\ d.name \in {call, SplitLast(call)}
        /\ ~(node.lineno <= d.start_line /\ d.end_line <= node.end_lineno)}

\* C25: local resolution comes before import resolution: no import is emitted
\* for a call that names a local function or method other than the current
\* definition; in _extract_node_context and in get_contextual_code.
C25_LocalBeforeImport ==
    stage = "assembled" =>
        /\ \A j \in 1..Len(gen_file_parts) :
               (gen_file_parts[j].tag = "call_context" /\ gen_file_parts[j].kind = "import")
                   => LocalMatchesOutside(gen_file_parts[j].call, GenSectionNode(j)) = {}
        /\ \A b \in 1..Len(changed) : \A j \in SectionOfBlock(b) :
               ctx_file_parts[j].tag = "import"
                   => \E call \in Range(changed[b].block_info.calls) :
                          /\ GCX_ImportMatches(SplitFirst(call), ctx_file_parts[j].text)
                          /\ CallTargets(call, changed[b]) = {}

\* Claims on the cache of get_contextual_code

\* The file at path can be fetched and parsed.
Parsable(path) ==
    /\ repo[path].kind \notin {"fetch_failed", "directory"}
    /\ ~ast_parse(repo[path]).raised

\* C26: within one run of get_contextual_code no path is fetched twice and
\* none is parsed twice; every file the loop has parsed is in
\* parsed_file_cache under its own path with the analysis of its own content,
\* and a further request for it is answered from the cache, with no call of
\* repo.get_contents or ast.parse and whatever the repository would give.
C26_ParsedOncePerRun ==
    /\ \A i, j \in 1..Len(fetch_log) : i < j => fetch_log[i] # fetch_log[j]
    /\ \A path \in DictKeys(parsed_file_cache) :
           /\ Parsable(path)
           /\ DictGet(parsed_file_cache, path) = AstParser(ast_parse(repo[path]).v)
           /\ CallsOfGetParsedFile(path, repo[path], parsed_file_cache) = <<>>
           /\ \A content \in Contents :
                  get_parsed_file(path, content, parsed_file_cache)
                      = [res |-> Returned(Some(DictGet(parsed_file_cache, path))),
                         cache |-> parsed_file_cache]
    /\ pc = "ctx" =>
           \A i \in 1..pos :
               (EndsWith(CtxFiles[i].k, PyExt) /\ Parsable(CtxFiles[i].k))
                   => DictHas(parsed_file_cache, CtxFiles[i].k)

\* Two files of different content have been fetched and parsed in the run and
\* both are in the cache.
C26_Witness ==
    /\ pc = "ctx" /\ pos = 2
    /\ DictKeys(parsed_file_cache) = {PathA, PathB}
    /\ repo[PathA] # repo[PathB]
    /\ Len(fetch_log) = 4

\* Claims on the agreement of the two diff parsers

\* A hunk header both parsers take for one.
IsHunkHeader(line) == hunk_header_regex(line).ok /\ hunk_header_re(line).ok

\* The text is a unified diff of Python files: sections opened by header
\* lines (`diff --git`, `---`, then `+++ b/<path>.py` or `+++ /dev/null`), in
\* each section hunks opened by a hunk header, in each hunk added, removed and
\* context lines, and a no-newline marker only after such a line.
IsUnifiedDiffOfPythonFiles ==
    /\ diff # <<>>
    /\ \A i \in 1..Len(diff) :
           \/ /\ IsSectionHeaderLine(diff[i])
              /\ StartsWith(diff[i], <<"+", "+", "+">>)
                     => \/ IsNewFileHeader(diff[i]) /\ EndsWith(diff[i], PyExt)
                        \/ diff[i] = LineDevNull
           \/ /\ IsHunkHeader(diff[i])
              /\ \E f \in 1..(i - 1) :
                     /\ StartsWith(diff[f], <<"+", "+", "+">>)
                     /\ \A j \in (f + 1)..(i - 1) : ~IsSectionHeaderLine(diff[j])
           \/ /\ IsHunkBodyLine(diff[i])
              /\ \E h \in 1..(i - 1) :
                     /\ IsHunkHeader(diff[h])
                     /\ \A j \in (h + 1)..(i - 1) : IsHunkBodyLine(diff[j])
              /\ IsNoNewlineMarker(diff[i])
                     => ~IsNoNewlineMarker(diff[i - 1]) /\ IsHunkBodyLine(diff[i - 1])

\* A mapping as the set of its items.
Items(d) == {<<d[i].k, d[i].v>> : i \in 1..Len(d)}

\* C27: for a unified diff whose sections are all Python files, the mapping
\* of parse_diff without its files of no added line is the mapping of
\* parse_diff_hunks: the same files with the same sets of line numbers.
C27_ParsersAgree ==
    (phase = "returned" /\ IsUnifiedDiffOfPythonFiles /\ ~ph.raised)
        => Items(NonEmptyItems(pd_ret)) = Items(ph_ret)

\* Claims on a run of main

\* The events of the run that ended.
Trace == main_ret.v.trace

\* Where a collaborator returned (or raised), and with which outcome.
CallsOf(fn) == {i \in 1..Len(Trace) : Trace[i].ev = "call" /\ Trace[i].name = fn}
ReturnedWith(fn, outcomes) == \E i \in CallsOf(fn) : Trace[i].value[1] \in outcomes

\* Where an output is set: the line of a single-line output, the opening
\* line of a multi-line one.
SetsOf(name) ==
    {i \in 1..Len(Trace) :
        /\ Trace[i].ev = "print" /\ Trace[i].name = name
        /\ Trace[i].form \in {"single", "heredoc_open"}}

\* The value an output is set to at i.
ValueSetAt(i) == IF Trace[i].form = "single" THEN Trace[i].value ELSE Trace[i + 1].value

\* Where a comment is posted: post_pr_comment returns, a comment is created.
CommentsPosted ==
    CallsOf("post_pr_comment") \cup {i \in 1..Len(Trace) : Trace[i].ev = "comment"}

\* What the pull request of the event links to, when it is asked as a pull
\* request.
LinkedIssue == find_linked_issue_number(Some(PullRequestObject(7)), main_world.timeline,
                                        main_world.pr_body)

\* Every step can succeed in the world of the run: the event names a pull
\* request, its diff is served, it links an issue (whose body is the empty
\* text when it has none), the template is loaded.
EveryStepSucceeds ==
    /\ TruthyValue(main_world.event)
    /\ main_world.web.some
    /\ TruthyValue(LinkedIssue.v)
    /\ Truthy(main_world.template)

\* What evaluate_intent returns for what the steps obtain.
Evaluation ==
    evaluate_intent(IF main_world.issue_body.some THEN main_world.issue_body ELSE Some(<<>>),
                    main_world.web, main_world.template, azure_openai, main_world.api)

C29_CommentOnlyAfterOutputs ==
    main_ret.some =>
        /\ Cardinality(CallsOf("post_pr_comment")) <= 1
        /\ Cardinality({i \in 1..Len(Trace) : Trace[i].ev = "comment"}) <= 1
        /\ \A c \in CommentsPosted :
               /\ \E e \in CallsOf("evaluate_intent") :
                      e < c /\ Trace[e].value[1] \in {"PASS", "FAIL"}
               /\ \E r \in SetsOf("result") : r < c
               /\ \E x \in SetsOf("explanation") : x < c
        /\ ~ReturnedWith("evaluate_intent", {"PASS", "FAIL"}) => CommentsPosted = {}

\* main left on the path of no linked issue: the outputs are set, nothing is
\* posted.
C29_Witness ==
    /\ main_ret.some
    /\ main_ret.v.exit_code = 1 /\ main_ret.v.uncaught = ""
    /\ ReturnedWith("find_linked_issue_number", {"None", "falsy"})
    /\ SetsOf("result") # {} /\ SetsOf("explanation") # {}
    /\ CommentsPosted = {}

\* C30: when main ends, the outputs result and explanation have each been set
\* exactly once, result to PASS or to FAIL; an exit with code 1 comes after
\* result was set to FAIL.
C30_OutputsSetOnceBeforeExit ==
    main_ret.some =>
        /\ Cardinality(SetsOf("result")) = 1
        /\ Cardinality(SetsOf("explanation")) = 1
        /\ \A r \in SetsOf("result") :
               /\ ValueSetAt(r) \in {<<"PASS">>, <<"FAIL">>}
               /\ main_ret.v.exit_code = 1 => ValueSetAt(r) = <<"FAIL">>

====
